---- MODULE Spec2Model ----
(***************************************************************************)
(* A model of holoviews/core/options.py: Options, OptionTree, Compositor   *)
(* and Store.                                                              *)
(*                                                                         *)
(* Python values are modelled as follows.                                  *)
(*   - An optional value is a sequence of length 0 (None) or 1 (Some(v)).  *)
(*   - A string that the code takes apart (identifiers, group and label    *)
(*     names, compositor patterns) is a sequence of tokens; a token is a   *)
(*     character or a word that is never split.                            *)
(*   - A dict is a function; its keys are the function's DOMAIN.           *)
(*   - A call either returns a value or raises: Return(v) / Raise(e).      *)
(***************************************************************************)
EXTENDS Integers, Sequences, FiniteSets, TLC

VARIABLES
    call,           \* the operation invoked last, with its arguments
    ret,            \* what that invocation returned or raised
    tree,           \* an OptionTree: its root and the root's descendants
    assigned,       \* how many children have been assigned on the tree
    definitions,    \* Compositor.definitions
    operations,     \* Compositor.operations
    Store_options,  \* Store.options, the global OptionTree
    custom_options, \* Store.custom_options, OptionTrees by object id
    Store_defaults, \* Store.defaults, plot classes by element class
    save_option_state,   \* Store.save_option_state
    load_counter_offset  \* Store.load_counter_offset, None or an integer

vars == <<call, ret, tree, assigned, definitions, operations, Store_options, custom_options,
          Store_defaults, save_option_state, load_counter_offset>>
treeVars == <<tree, assigned>>
compositorVars == <<definitions, operations>>
flagVars == <<save_option_state, load_counter_offset>>
storeVars == <<Store_options, custom_options, Store_defaults, flagVars>>

(***************************************************************************)
(* Bounds of the model.                                                    *)
(***************************************************************************)
MaxAllowed == 2     \* longest allow-list supplied to Options
MaxAssign == 2      \* child assignments performed on the OptionTree
MaxPath == 2        \* longest path handed to OptionTree.find
MaxOverlay == 3     \* longest overlay handed to the Compositor
MaxParts == 2       \* constituent parts of a composite handed to Store.lookup

(***************************************************************************)
(* Generic Python values.                                                  *)
(***************************************************************************)
None == <<>>
Some(v) == <<v>>
IsNone(o) == o = <<>>

Return(v) == [raised |-> FALSE, value |-> v]
Raise(e) == [raised |-> TRUE, exc |-> e]
NoCall == [op |-> "none"]
NoRet == [raised |-> FALSE, value |-> None]

\* Membership in a list (Python's "in" on a list).
InList(x, list) == \E i \in 1..Len(list) : list[i] = x

\* All sequences over S of length at most n.
SeqUpTo(S, n) == UNION {[1..m -> S] : m \in 0..n}

\* dict(a, **b): the entries of b override those of a.
DictMerge(a, b) ==
    [k \in DOMAIN a \cup DOMAIN b |-> IF k \in DOMAIN b THEN b[k] ELSE a[k]]

EmptyDict == [k \in {} |-> None]

(***************************************************************************)
(* Keyword names and their values.  Keyword names are compared             *)
(* alphabetically by sorted(); Alphabetical lists them in that order.      *)
(***************************************************************************)
Keywords == {"x", "y", "z"}
Alphabetical == <<"axiswise", "framewise", "name", "x", "y", "z">>
Rank(k) == CHOOSE i \in 1..Len(Alphabetical) : Alphabetical[i] = k

\* A keyword value that is not a Cycle.
Val(v) == [isCycle |-> FALSE, values |-> <<v>>]
Values == {Val(1), Val(2)}

\* sorted(list) for a list of keyword names (insertion sort, stable).
RECURSIVE InsertSorted(_, _)
InsertSorted(k, sorted) ==
    IF sorted = <<>> THEN <<k>>
    ELSE IF Rank(k) < Rank(Head(sorted)) THEN <<k>> \o sorted
    ELSE <<Head(sorted)>> \o InsertSorted(k, Tail(sorted))

RECURSIVE SortedList(_)
SortedList(list) ==
    IF list = <<>> THEN <<>>
    ELSE InsertSorted(list[Len(list)], SortedList(SubSeq(list, 1, Len(list) - 1)))

\* sorted(d.keys()) for a dict keyed by keyword names.
ReverseSortedKeys(d) ==
    LET present == SelectSeq(Alphabetical, LAMBDA k : k \in DOMAIN d)
    IN [i \in 1..Len(present) |-> present[Len(present) + 1 - i]]

SortedKeys(d) == SelectSeq(Alphabetical, LAMBDA k : k \in DOMAIN d)

(***************************************************************************)
(* OptionError (options.py 44-68).                                         *)
(***************************************************************************)
OptionError(invalid_keyword, allowed_keywords, group_name, path) ==
    [type |-> "OptionError",
     invalid_keyword |-> invalid_keyword,
     allowed_keywords |-> allowed_keywords,
     group_name |-> group_name,
     path |-> path]

(***************************************************************************)
(* Options (options.py 187-282).  allowed_keywords is None or Some(list);  *)
(* a list is true in a condition exactly when it is not empty.             *)
(***************************************************************************)
Truthy(allowed_keywords) ==
    ~IsNone(allowed_keywords) /\ allowed_keywords[1] # <<>>

\* The loop of Options.__init__: the first keyword, in sorted order, that the
\* allow-list rejects, as Some(keyword); None when every keyword passes.
RECURSIVE FirstRejected(_, _)
FirstRejected(sortedKwargs, allowed_keywords) ==
    IF sortedKwargs = <<>> THEN None
    ELSE IF Truthy(allowed_keywords)
            /\ ~InList(Head(sortedKwargs), allowed_keywords[1])
         THEN Some(Head(sortedKwargs))
    ELSE FirstRejected(Tail(sortedKwargs), allowed_keywords)

Options_init(key, allowed_keywords, kwargs) ==
    LET rejected == FirstRejected(SortedKeys(kwargs), allowed_keywords)
    IN IF ~IsNone(rejected)
       THEN Raise(OptionError(rejected[1], allowed_keywords, None, None))
       ELSE Return([key |-> key,
                    allowed_keywords |->
                        IF Truthy(allowed_keywords)
                        THEN Some(SortedList(allowed_keywords[1]))
                        ELSE None,
                    kwargs |-> kwargs])

\* Options(): no key, no allow-list, no keywords.
EmptyOptions == Options_init(None, None, EmptyDict).value

(***************************************************************************)
(* Inputs of the Options operations.                                       *)
(***************************************************************************)
AllowLists == {None} \cup {Some(l) : l \in SeqUpTo(Keywords, MaxAllowed)}
KwargDicts == UNION {[D -> Values] : D \in SUBSET Keywords}
\* The groups of Store.options, and the order in which a dict of them is
\* iterated.
GroupNames == {"plot", "style", "norm"}
GroupOrder == <<"plot", "style", "norm">>
OptionKeys == {None, Some("plot"), Some("style")}

\* No call made yet, and the state every class has when the module is loaded.
Idle == call = NoCall /\ ret = NoRet
NoTree == tree = <<>> /\ assigned = 0
NoCompositors == definitions = <<>> /\ operations = <<>>
NoPickling == save_option_state = FALSE /\ load_counter_offset = None
NoDefaults == Store_defaults = EmptyDict
NoCustomOptions ==
    Store_options = <<>> /\ custom_options = EmptyDict /\ NoPickling /\ NoDefaults

InitOptions == Idle /\ NoTree /\ NoCompositors /\ NoCustomOptions

(***************************************************************************)
(* Specification of the Options operations.                                *)
(***************************************************************************)
ConstructOptions ==
    /\ call = NoCall
    /\ \E key \in OptionKeys, allowed_keywords \in AllowLists, kwargs \in KwargDicts :
        /\ call' = [op |-> "Options", key |-> key,
                    allowed_keywords |-> allowed_keywords, kwargs |-> kwargs]
        /\ ret' = Options_init(key, allowed_keywords, kwargs)
    /\ UNCHANGED <<treeVars, compositorVars, storeVars>>

NextOptions == ConstructOptions

SpecOptions == InitOptions /\ [][NextOptions]_vars

(***************************************************************************)
(* Claims about Options.                                                   *)
(***************************************************************************)
\* The keywords of a construction call that its allow-list does not hold.
Offending(c) == {k \in DOMAIN c.kwargs : ~InList(k, c.allowed_keywords[1])}

AlphabeticallyFirst(S) == CHOOSE k \in S : \A j \in S : Rank(k) <= Rank(j)

RejectedAsClaimed(c, r) ==
    /\ r.raised
    /\ r.exc.type = "OptionError"
    /\ r.exc.invalid_keyword = AlphabeticallyFirst(Offending(c))
    /\ r.exc.allowed_keywords = c.allowed_keywords

\* C1 (as amended): constructing an Options with a non-empty allow-list and
\* at least one keyword outside it raises an OptionError whose
\* invalid_keyword is the alphabetically first offending keyword and whose
\* allowed_keywords is the allow-list as supplied; no Options is produced.
C1_RejectsKeywordOutsideNonEmptyAllowList ==
    (/\ call.op = "Options"
     /\ ~IsNone(call.allowed_keywords)
     /\ call.allowed_keywords[1] # <<>>
     /\ Offending(call) # {})
        => RejectedAsClaimed(call, ret)

\* C1 (original): the same for every non-null allow-list, the empty list
\* included.
C1_RejectsKeywordOutsideAnyNonNullAllowList ==
    (/\ call.op = "Options"
     /\ ~IsNone(call.allowed_keywords)
     /\ Offending(call) # {})
        => RejectedAsClaimed(call, ret)

\* C1 witness: a construction with a non-empty, unsorted allow-list and two
\* offending keywords was rejected.
C1_Witness ==
    /\ call.op = "Options"
    /\ call.allowed_keywords = Some(<<"z", "z">>)
    /\ Offending(call) = {"x", "y"}
    /\ ret.raised
    /\ ret.exc.invalid_keyword = "x"

(***************************************************************************)
(* Identifiers.  A name is a sequence of tokens; sanitize_identifier       *)
(* (core/util.py, escape=False) turns every space into an underscore.      *)
(***************************************************************************)
sanitize_identifier(name) ==
    [i \in 1..Len(name) |-> IF name[i] = " " THEN "_" ELSE name[i]]

\* str.endswith
EndsWith(s, suffix) ==
    /\ Len(suffix) <= Len(s)
    /\ SubSeq(s, Len(s) - Len(suffix) + 1, Len(s)) = suffix

(***************************************************************************)
(* OptionTree (options.py 286-450).  A tree is a function from the         *)
(* location of each of its nodes (the identifiers from the root down; the  *)
(* root is <<>>) to the node: its groups dict and the ordered list of its  *)
(* children's identifiers.                                                 *)
(***************************************************************************)
Node(groups, children) == [groups |-> groups, children |-> children]

Parent(node) == SubSeq(node, 1, Len(node) - 1)

IsPrefix(p, s) == Len(p) <= Len(s) /\ SubSeq(s, 1, Len(p)) = p

\* AttrTree.path: the identifiers from the root down to the node.
OptionTree_path(node) == node


\* Options.__call__ with the two dicts of the merge swapped.
Options_call_OwnKeywordsWin(self, allowed_keywords, kwargs) ==
    LET merged == [k \in DOMAIN self.kwargs \cup DOMAIN kwargs |->
                      IF k \in DOMAIN self.kwargs THEN self.kwargs[k] ELSE kwargs[k]]
        made == [key |-> self.key,
                 allowed_keywords |->
                     IF IsNone(allowed_keywords) THEN self.allowed_keywords
                     ELSE allowed_keywords,
                 kwargs |-> merged]
    IN Return(made)

\* Options.__call__ that takes the allow-list passed, None included.
Options_call_PassedListOnly(self, allowed_keywords, kwargs) ==
    Options_init(self.key, allowed_keywords, DictMerge(self.kwargs, kwargs))

\* Options.__call__(allowed_keywords, **kwargs): a new Options that inherits
\* the keywords, the key and, unless one is passed, the allow-list.
Options_call(self, allowed_keywords, kwargs) ==
    Options_init(self.key,
                 IF IsNone(allowed_keywords) THEN self.allowed_keywords
                 ELSE allowed_keywords,
                 DictMerge(self.kwargs, kwargs))

\* OptionTree._inherited_options that inherits from the node assigned on,
\* whether or not the child exists.
OptionTree_inherited_options_FromParent(t, self, instantiated, identifier, group_name, options) ==
    LET made == Options_call(t[self].groups[group_name], None, options.kwargs)
    IN IF made.raised
       THEN Raise(OptionError(made.exc.invalid_keyword, made.exc.allowed_keywords,
                              Some(group_name), Some(OptionTree_path(self))))
       ELSE made

\* OptionTree._inherited_options that always passes on the allow-list of the
\* Options assigned.
OptionTree_inherited_options_OverrideList(t, self, instantiated, identifier, group_name, options) ==
    LET exists == InList(identifier, t[self].children)
        current_node == IF exists THEN self \o <<identifier>> ELSE self
        made == Options_call(t[current_node].groups[group_name],
                             options.allowed_keywords, options.kwargs)
    IN IF made.raised
       THEN Raise(OptionError(made.exc.invalid_keyword, made.exc.allowed_keywords,
                              Some(group_name), Some(OptionTree_path(self))))
       ELSE made

\* OptionTree._inherited_options, called on the node at location self of tree
\* t.  instantiated is self._instantiated.  The allow-list is passed on to
\* Options.__call__ only in the two cases the code names; a None passed on
\* is the call's default.
OptionTree_inherited_options(t, self, instantiated, identifier, group_name, options) ==
    LET exists == InList(identifier, t[self].children)
        override_allowed ==
            IF ~instantiated THEN options.allowed_keywords
            ELSE IF exists
                 THEN t[self \o <<identifier>>].groups[group_name].allowed_keywords
            ELSE None
        current_node == IF exists THEN self \o <<identifier>> ELSE self
    IN IF group_name \notin DOMAIN t[self].groups
       THEN Raise([type |-> "KeyError", group_name |-> group_name])
       ELSE LET made == Options_call(t[current_node].groups[group_name],
                                     override_allowed, options.kwargs)
            IN IF made.raised
               THEN Raise(OptionError(made.exc.invalid_keyword,
                                      made.exc.allowed_keywords,
                                      Some(group_name),
                                      Some(OptionTree_path(self))))
               ELSE made

\* The value assigned to a child: a dict from group names to Options, or a
\* single Options, which stands for the dict {val.key: val}.
DictVal(items) == [kind |-> "dict", items |-> items]
OptionsVal(options) == [kind |-> "Options", options |-> options]

\* AttrTree.__setattr__: the node at self gets child identifier (appended to
\* the children when new); whatever was below that child before is gone with
\* the node it hung from.
AttrTree_setattr(t, self, identifier, new_node) ==
    LET at == self \o <<identifier>>
        kept == {n \in DOMAIN t : ~IsPrefix(at, n)}
        children == IF InList(identifier, t[self].children)
                    THEN t[self].children
                    ELSE Append(t[self].children, identifier)
    IN [n \in kept \cup {at} |->
            IF n = at THEN new_node
            ELSE IF n = self THEN Node(t[self].groups, children)
            ELSE t[n]]

\* OptionTree.__setattr__ that gives the new node the groups named in the
\* assignment only.
OptionTree_setattr_NamedOnly(t, self, instantiated, raw_identifier, val) ==
    LET identifier == sanitize_identifier(raw_identifier)
        exists == InList(identifier, t[self].children)
        current_node == IF exists THEN self \o <<identifier>> ELSE self
        schema == DOMAIN t[current_node].groups
        group_items == IF val.kind = "dict" THEN val.items
                       ELSE (val.options.key[1] :> val.options)
        named == {g \in schema : g \in DOMAIN group_items}
        inherited == [g \in named |->
                         OptionTree_inherited_options(t, self, instantiated,
                                                      identifier, g, group_items[g])]
        failed == {g \in named : inherited[g].raised}
        new_groups == [g \in named |-> inherited[g].value]
    IN IF val.kind = "Options" /\ IsNone(val.options.key)
       THEN Raise([type |-> "AttributeError"])
       ELSE IF failed # {}
       THEN inherited[CHOOSE g \in failed : TRUE]
       ELSE Return(AttrTree_setattr(t, self, identifier, Node(new_groups, <<>>)))

\* OptionTree.__setattr__ that passes over a group whose keywords are
\* rejected: the node is made of the groups that are valid, and the others
\* stay as they were.
OptionTree_setattr_SkipsRejected(t, self, instantiated, raw_identifier, val) ==
    LET identifier == sanitize_identifier(raw_identifier)
        exists == InList(identifier, t[self].children)
        current_node == IF exists THEN self \o <<identifier>> ELSE self
        schema == DOMAIN t[current_node].groups
        group_items == IF val.kind = "dict" THEN val.items
                       ELSE (val.options.key[1] :> val.options)
        named == {g \in schema : g \in DOMAIN group_items}
        inherited == [g \in named |->
                         OptionTree_inherited_options(t, self, instantiated,
                                                      identifier, g, group_items[g])]
        new_groups == [g \in schema |->
                          IF g \in named /\ ~inherited[g].raised
                          THEN inherited[g].value
                          ELSE t[current_node].groups[g]]
    IN IF val.kind = "Options" /\ IsNone(val.options.key)
       THEN Raise([type |-> "AttributeError"])
       ELSE Return(AttrTree_setattr(t, self, identifier, Node(new_groups, <<>>)))

\* OptionTree.__setattr__ on the node at location self: Return(tree after the
\* assignment) or Raise(error), in which case the tree is as it was.
OptionTree_setattr(t, self, instantiated, raw_identifier, val) ==
    LET identifier == sanitize_identifier(raw_identifier)
        exists == InList(identifier, t[self].children)
        current_node == IF exists THEN self \o <<identifier>> ELSE self
        schema == DOMAIN t[current_node].groups
        group_items == IF val.kind = "dict" THEN val.items
                       ELSE (val.options.key[1] :> val.options)
        named == {g \in schema : g \in DOMAIN group_items}
        inherited == [g \in named |->
                         OptionTree_inherited_options(t, self, instantiated,
                                                      identifier, g, group_items[g])]
        failed == {g \in named : inherited[g].raised}
        new_groups == [g \in schema |->
                          IF g \in named THEN inherited[g].value
                          ELSE t[current_node].groups[g]]
    IN IF val.kind = "Options" /\ IsNone(val.options.key)
       THEN Raise([type |-> "AttributeError"])
       ELSE IF failed # {}
       \* the loop visits the groups in the dict's order and the first
       \* failing group raises
       THEN LET first == CHOOSE i \in 1..Len(GroupOrder) :
                            /\ GroupOrder[i] \in failed
                            /\ \A j \in 1..(i - 1) : GroupOrder[j] \notin failed
            IN inherited[GroupOrder[first]]
       ELSE IF schema = {}
       THEN Raise([type |-> "ValueError"])
       ELSE Return(AttrTree_setattr(t, self, identifier, Node(new_groups, <<>>)))

\* OptionTree.options with the two dicts of the merge swapped.
RECURSIVE OptionTree_options_AncestorWins(_, _, _)
OptionTree_options_AncestorWins(t, node, group) ==
    IF group \notin DOMAIN t[node].groups THEN Return(None)
    ELSE IF node = <<>> THEN Return(Some(t[node].groups[group]))
    ELSE LET inherited == OptionTree_options_AncestorWins(t, Parent(node), group)
         IN Return(Some(Options_init(None, None,
                            DictMerge(t[node].groups[group].kwargs,
                                      inherited.value[1].kwargs)).value))

\* OptionTree.options: the Options of a group at a node with every ancestor's
\* keywords inherited; None for a group the node does not have.
RECURSIVE OptionTree_options(_, _, _)
OptionTree_options(t, node, group) ==
    IF group \notin DOMAIN t[node].groups THEN Return(None)
    ELSE IF node = <<>> THEN Return(Some(t[node].groups[group]))
    ELSE LET inherited == OptionTree_options(t, Parent(node), group)
         IN IF inherited.raised THEN inherited
            ELSE IF IsNone(inherited.value)
            THEN Raise([type |-> "AttributeError"])
            ELSE LET made == Options_init(None, None,
                                 DictMerge(inherited.value[1].kwargs,
                                           t[node].groups[group].kwargs))
                 IN IF made.raised THEN made ELSE Return(Some(made.value))

\* sorted(matching_children, key=lambda x: len(x)): shortest first.
RECURSIVE InsertByLength_ShortestFirst(_, _)
InsertByLength_ShortestFirst(c, sorted) ==
    IF sorted = <<>> THEN <<c>>
    ELSE IF Len(c) < Len(Head(sorted)) THEN <<c>> \o sorted
    ELSE <<Head(sorted)>> \o InsertByLength_ShortestFirst(c, Tail(sorted))

\* sorted(matching_children, key=lambda x: -len(x)): longest first, and
\* children of equal length in the order they had (the sort is stable).
RECURSIVE InsertByLength(_, _)
InsertByLength(c, sorted) ==
    IF sorted = <<>> THEN <<c>>
    ELSE IF Len(c) > Len(Head(sorted)) THEN <<c>> \o sorted
    ELSE <<Head(sorted)>> \o InsertByLength(c, Tail(sorted))

RECURSIVE SortedLongestFirst(_)
SortedLongestFirst(list) ==
    IF list = <<>> THEN <<>>
    ELSE InsertByLength(list[Len(list)],
                        SortedLongestFirst(SubSeq(list, 1, Len(list) - 1)))

\* The children of a node that a path segment matches.
MatchingChildren(t, item, child) ==
    SelectSeq(t[item].children,
              LAMBDA c : EndsWith(child, c)
                         \/ EndsWith(sanitize_identifier(child), c))

\* The loop of OptionTree.find with "break" for "continue".
RECURSIVE FindFrom_Strict(_, _, _)
FindFrom_Strict(t, item, path) ==
    IF path = <<>> THEN item
    ELSE LET matching_children ==
                 SortedLongestFirst(MatchingChildren(t, item, Head(path)))
         IN IF matching_children # <<>>
            THEN FindFrom_Strict(t, item \o <<matching_children[1]>>, Tail(path))
            ELSE item

\* The loop of OptionTree.find: from node item, down the remaining path.
RECURSIVE FindFrom(_, _, _)
FindFrom(t, item, path) ==
    IF path = <<>> THEN item
    ELSE LET matching_children ==
                 SortedLongestFirst(MatchingChildren(t, item, Head(path)))
         IN IF matching_children # <<>>
            THEN FindFrom(t, item \o <<matching_children[1]>>, Tail(path))
            ELSE FindFrom(t, item, Tail(path))

\* OptionTree.find, called on the root.
OptionTree_find(t, path, mode) ==
    LET item == FindFrom(t, <<>>, path)
    IN IF mode = "node" THEN [node |-> item]
       ELSE [path |-> OptionTree_path(item)]

\* OptionTree.closest: obj is a record with the fields type, group and label.
OptionTree_closest(t, obj, group) ==
    OptionTree_options(t, OptionTree_find(t, <<obj.type, obj.group, obj.label>>,
                                          "node").node, group)

\* OptionTree.__getattr__ for an identifier that is no attribute of the
\* node: the child of that name, created with the node's own groups when it
\* does not exist.  Returns the tree and the location of the child.
OptionTree_getattr(t, self, raw_identifier) ==
    LET valid_id == sanitize_identifier(raw_identifier)
    IN IF raw_identifier # <<>> /\ Head(raw_identifier) = "_"
       THEN Raise([type |-> "AttributeError"])
       ELSE IF InList(valid_id, t[self].children)
       THEN Return([tree |-> t, node |-> self \o <<valid_id>>])
       ELSE LET set == OptionTree_setattr(t, self, TRUE, raw_identifier,
                                          DictVal(t[self].groups))
            IN IF set.raised THEN set
               ELSE Return([tree |-> set.value, node |-> self \o <<valid_id>>])

\* OptionTree.__init__(items, groups=groups): the root is not instantiated
\* while AttrTree.__init__ assigns the items, a list of (identifier, val)
\* pairs, in order.
RECURSIVE AssignItems(_, _)
AssignItems(t, items) ==
    IF items = <<>> THEN Return(t)
    ELSE LET set == OptionTree_setattr(t, <<>>, FALSE, items[1][1], items[1][2])
         IN IF set.raised THEN set ELSE AssignItems(set.value, Tail(items))

OptionTree_init(items, groups) ==
    AssignItems((<<>> :> Node(groups, <<>>)), items)

(***************************************************************************)
(* Inputs of the OptionTree operations.                                    *)
(***************************************************************************)
A == <<"A">>
B == <<"B">>
V1 == Val(1)
V2 == Val(2)

Opts(key, allowed_keywords, kwargs) == Options_init(key, allowed_keywords, kwargs).value

\* The groups the trees are built with, as in Store.options.
RootGroups == [g \in GroupNames |-> EmptyOptions]

\* The trees the operations start from: a bare root, and a root built from
\* one item whose plot Options carries an allow-list.
InitialTrees ==
    {OptionTree_init(<<>>, RootGroups).value,
     OptionTree_init(<< <<A, DictVal("plot" :> Opts(None, Some(<<"y", "x">>), EmptyDict))>> >>,
                     RootGroups).value}

\* The values assigned to children.
AssignedVals ==
    {DictVal("plot" :> Opts(None, None, "x" :> V1)),
     DictVal("plot" :> Opts(None, None, "x" :> V2)),
     DictVal("plot" :> Opts(None, None, "y" :> V2)),
     DictVal("style" :> Opts(None, None, "z" :> V1)),
     OptionsVal(Opts(Some("style"), None, "x" :> V2)),
     OptionsVal(Opts(None, None, "x" :> V1))}

InitTree ==
    /\ Idle /\ NoCompositors /\ NoCustomOptions
    /\ tree \in InitialTrees
    /\ assigned = 0

(***************************************************************************)
(* Specification of assignment and resolution on an OptionTree.            *)
(***************************************************************************)
\* node.identifier = val
Assign ==
    /\ assigned < MaxAssign
    /\ \E self \in DOMAIN tree, identifier \in {A, B}, val \in AssignedVals :
        LET set == OptionTree_setattr(tree, self, TRUE, identifier, val)
        IN /\ call' = [op |-> "setattr", self |-> self,
                       identifier |-> identifier, val |-> val]
           /\ ret' = IF set.raised THEN set ELSE Return(None)
           /\ tree' = IF set.raised THEN tree ELSE set.value
    /\ assigned' = assigned + 1
    /\ UNCHANGED <<compositorVars, storeVars>>

\* node.options(group).  A query leaves the tree as it is, so a query made
\* right after another one reaches nothing that the first did not.
Resolve ==
    /\ call.op # "options"
    /\ \E node \in DOMAIN tree, group \in GroupNames \cup {"other"} :
        /\ call' = [op |-> "options", node |-> node, group |-> group]
        /\ ret' = OptionTree_options(tree, node, group)
    /\ UNCHANGED <<treeVars, compositorVars, storeVars>>

NextTree == Assign \/ Resolve

SpecTree == InitTree /\ [][NextTree]_vars

(***************************************************************************)
(* Claims about OptionTree.options.                                        *)
(***************************************************************************)
\* The nodes on the path from the root to a node, both included.
OnPath(node) == {SubSeq(node, 1, i) : i \in 0..Len(node)}

\* The nodes on the path to node whose group Options sets keyword k.
Setting(t, node, group, k) ==
    {n \in OnPath(node) : k \in DOMAIN t[n].groups[group].kwargs}

Deepest(nodes) == CHOOSE n \in nodes : \A m \in nodes : Len(m) <= Len(n)

\* The keywords of a group merged along the path, a node before its ancestors.
MergedAlongPath(t, node, group) ==
    [k \in {k \in Keywords : Setting(t, node, group, k) # {}} |->
        t[Deepest(Setting(t, node, group, k))].groups[group].kwargs[k]]

\* The tree of the example: root.A = {plot: Options(x=1)}, then
\* root.A.B = {plot: Options(y=2)}, on a bare root.
ExampleTree ==
    LET root == OptionTree_init(<<>>, RootGroups).value
        withA == OptionTree_setattr(root, <<>>, TRUE, A,
                     DictVal("plot" :> Opts(None, None, "x" :> V1))).value
    IN OptionTree_setattr(withA, <<A>>, TRUE, B,
                          DictVal("plot" :> Opts(None, None, "y" :> V2))).value

\* C2: resolving a group of the schema at a node returns an Options whose
\* keywords are those of the group merged along the path from the root to
\* the node, a node's value taking priority over every ancestor's; in the
\* example tree, plot resolves to {x: 1, y: 2} at A.B and to {x: 1} at A.
C2_OptionsMergesAlongPath ==
    (call.op = "options" /\ call.group \in GroupNames) =>
        /\ ~ret.raised
        /\ ~IsNone(ret.value)
        /\ ret.value[1].kwargs = MergedAlongPath(tree, call.node, call.group)
        /\ (tree = ExampleTree /\ call.group = "plot" /\ call.node = <<A, B>>)
              => ret.value[1].kwargs = ("x" :> V1 @@ "y" :> V2)
        /\ (tree = ExampleTree /\ call.group = "plot" /\ call.node = <<A>>)
              => ret.value[1].kwargs = ("x" :> V1)

\* C2 witness: a group was resolved at a node that sets a keyword to another
\* value than its parent does.
C2_Witness ==
    /\ call.op = "options"
    /\ call.node = <<A, B>>
    /\ call.group = "plot"
    /\ "x" \in DOMAIN tree[<<A>>].groups["plot"].kwargs
    /\ "x" \in DOMAIN tree[<<A, B>>].groups["plot"].kwargs
    /\ tree[<<A>>].groups["plot"].kwargs["x"] # tree[<<A, B>>].groups["plot"].kwargs["x"]
    /\ ret.value[1].kwargs["x"] = tree[<<A, B>>].groups["plot"].kwargs["x"]

\* C2 witness of the example: plot was resolved at A.B of the example tree.
C2_ExampleReached ==
    tree = ExampleTree /\ call.op = "options" /\ call.group = "plot" /\ call.node = <<A, B>>

(***************************************************************************)
(* Strings taken apart by Compositor.__init__.                             *)
(***************************************************************************)
\* str.split(sep): the pieces between the separators, at least one piece.
RECURSIVE Split(_, _)
Split(s, sep) ==
    IF ~InList(sep, s) THEN <<s>>
    ELSE LET i == CHOOSE i \in 1..Len(s) :
                      s[i] = sep /\ \A j \in 1..(i - 1) : s[j] # sep
         IN <<SubSeq(s, 1, i - 1)>> \o Split(SubSeq(s, i + 1, Len(s)), sep)

\* str.strip(): without the spaces at either end.
RECURSIVE Strip(_)
Strip(s) ==
    IF s = <<>> THEN s
    ELSE IF Head(s) = " " THEN Strip(Tail(s))
    ELSE IF s[Len(s)] = " " THEN Strip(SubSeq(s, 1, Len(s) - 1))
    ELSE s

(***************************************************************************)
(* Elements and overlays (core/overlay.py).  An element has a type name, a *)
(* group, a label and an id.  An overlay is an ordered list of elements,   *)
(* with an id of its own.                                                  *)
(***************************************************************************)
Element(type, group, label) ==
    [composite |-> FALSE, type |-> type, group |-> group, label |-> label, id |-> None]

\* Overlay.from_values(values): a new overlay of the values.
Overlay_from_values(values) == [composite |-> TRUE, values |-> values, id |-> None]

\* element.relabel(group=group)
relabel(element, group) == [element EXCEPT !.group = group]

\* What an operation returns is not the concern of the model: its result is
\* an element that records the operation, the way it was invoked and what it
\* was given.
OperationResult(operation, via, value, input_ranges, key, kwargs) ==
    [composite |-> FALSE, type |-> <<"Result">>, group |-> <<"Operation">>,
     label |-> <<>>, id |-> None,
     operation |-> operation, via |-> via, value |-> value,
     input_ranges |-> input_ranges, key |-> key, kwargs |-> kwargs]

(***************************************************************************)
(* Compositor (options.py 454-654).                                        *)
(***************************************************************************)
\* Compositor.__init__ without the check of the labels.
Compositor_init_Unchecked(pattern, operation, group, mode, kwargs) ==
    LET path_tuple(path) ==
            LET parts == Split(Strip(path), ".")
            IN [i \in 1..Len(parts) |-> Strip(parts[i])]
        paths == Split(pattern, "*")
        pattern_spec == [i \in 1..Len(paths) |-> path_tuple(paths[i])]
        labelled == SelectSeq(pattern_spec, LAMBDA t : Len(t) = 3)
    IN Return([pattern |-> pattern,
               pattern_spec |-> pattern_spec,
               label |-> IF Len(labelled) >= 1 THEN labelled[1][3] ELSE <<>>,
               operation |-> operation,
               group |-> group,
               mode |-> mode,
               kwargs |-> kwargs])

\* Compositor.__init__
Compositor_init(pattern, operation, group, mode, kwargs) ==
    LET path_tuple(path) ==
            LET parts == Split(Strip(path), ".")
            IN [i \in 1..Len(parts) |-> Strip(parts[i])]
        paths == Split(pattern, "*")
        pattern_spec == [i \in 1..Len(paths) |-> path_tuple(paths[i])]
        labelled == SelectSeq(pattern_spec, LAMBDA t : Len(t) = 3)
        labels == [i \in 1..Len(labelled) |-> labelled[i][3]]
    IN IF Len(labels) > 1 /\ \E i \in 1..Len(labels) : labels[i] # labels[1]
       THEN Raise([type |-> "KeyError"])
       ELSE Return([pattern |-> pattern,
                    pattern_spec |-> pattern_spec,
                    label |-> IF Len(labels) = 1 THEN labels[1] ELSE <<>>,
                    operation |-> operation,
                    group |-> group,
                    mode |-> mode,
                    kwargs |-> kwargs])

\* One round of the loop of _slice_match_level that goes on with the level
\* reached when the group or the label does not match.
SpecMatch_Partial(spec, el) ==
    IF spec[1] # el.type THEN None
    ELSE IF Len(spec) = 1 THEN Some(1)
    ELSE IF ~(spec[2] \in {el.group, sanitize_identifier(el.group)}) THEN Some(1)
    ELSE IF Len(spec) = 3
         THEN IF spec[3] \in {el.label, sanitize_identifier(el.label)}
              THEN Some(3) ELSE Some(2)
    ELSE Some(2)

\* One round of the loop of Compositor._slice_match_level: Some(what the
\* element adds to the level), or None when the element does not match.
SpecMatch(spec, el) ==
    IF spec[1] # el.type THEN None
    ELSE IF Len(spec) = 1 THEN Some(1)
    ELSE IF ~(spec[2] \in {el.group, sanitize_identifier(el.group)}) THEN None
    ELSE IF Len(spec) = 3
         THEN IF spec[3] \in {el.label, sanitize_identifier(el.label)}
              THEN Some(3) ELSE None
    ELSE Some(2)

\* Compositor._slice_match_level: Some(level) or None.  zip stops at the
\* shorter of the two lists.
RECURSIVE Compositor_slice_match_level(_, _)
Compositor_slice_match_level(pattern_spec, overlay_items) ==
    IF pattern_spec = <<>> \/ overlay_items = <<>> THEN Some(0)
    ELSE LET first == SpecMatch(Head(pattern_spec), Head(overlay_items))
         IN IF IsNone(first) THEN None
            ELSE LET rest == Compositor_slice_match_level(Tail(pattern_spec),
                                                          Tail(overlay_items))
                 IN IF IsNone(rest) THEN None ELSE Some(first[1] + rest[1])

\* The loop of Compositor.match_level with ">=" for ">".
RECURSIVE BestSliceLast(_, _, _, _)
BestSliceLast(self, overlay, i, best) ==
    LET slice_width == Len(self.pattern_spec)
    IN IF i > Len(overlay.values) - slice_width THEN best
       ELSE LET lvl == Compositor_slice_match_level(
                           self.pattern_spec,
                           SubSeq(overlay.values, i + 1, i + slice_width))
            IN IF ~IsNone(lvl) /\ lvl[1] >= best[1]
               THEN BestSliceLast(self, overlay, i + 1,
                                  <<lvl[1], Some(<<i, i + slice_width>>)>>)
               ELSE BestSliceLast(self, overlay, i + 1, best)

\* The loop of Compositor.match_level from window i on (windows are counted
\* from 0, and a slice (start, stop) holds the elements start+1..stop of the
\* list); best is (best_lvl, match_slice).
RECURSIVE BestSlice(_, _, _, _)
BestSlice(self, overlay, i, best) ==
    LET slice_width == Len(self.pattern_spec)
    IN IF i > Len(overlay.values) - slice_width THEN best
       ELSE LET lvl == Compositor_slice_match_level(
                           self.pattern_spec,
                           SubSeq(overlay.values, i + 1, i + slice_width))
            IN IF ~IsNone(lvl) /\ lvl[1] > best[1]
               THEN BestSlice(self, overlay, i + 1,
                              <<lvl[1], Some(<<i, i + slice_width>>)>>)
               ELSE BestSlice(self, overlay, i + 1, best)

\* Compositor.match_level: None or Some(<<level, <<start, stop>>>>).
Compositor_match_level(self, overlay) ==
    IF Len(self.pattern_spec) > Len(overlay.values) THEN None
    ELSE LET best == BestSlice(self, overlay, 0, <<0, None>>)
         IN IF best[1] # 0 THEN Some(<<best[1], best[2][1]>>) ELSE None

\* The matches of Compositor.strongest_match, in the order of the
\* definitions: <<level, compositor, slice>> for every compositor of the mode
\* that matches the overlay.
Matches(defs, overlay, mode) ==
    LET of_mode == SelectSeq(defs, LAMBDA op : op.mode = mode)
        matching == SelectSeq(of_mode,
                        LAMBDA op : ~IsNone(Compositor_match_level(op, overlay)))
    IN [i \in 1..Len(matching) |->
           LET match == Compositor_match_level(matching[i], overlay)[1]
           IN <<match[1], matching[i], match[2]>>]

\* sorted(matches)[0].  The tuples are ordered by level; two tuples of the
\* same level are ordered by their compositors, which define no order of
\* their own: Python 2 then orders them by address, so that either may come
\* first, and Python 3 raises a TypeError.  A sort compares every two tuples
\* that end up next to each other, so two matches of the same level are
\* compared wherever they stand.
SortedFirst(matches) ==
    LET set == {matches[i] : i \in 1..Len(matches)}
        lowest == {m \in set : \A n \in set : m[1] <= n[1]}
        tie == \E m, n \in set : m # n /\ m[1] = n[1]
    IN {Return(Some(m)) : m \in lowest}
       \cup (IF tie THEN {Raise([type |-> "TypeError"])} ELSE {})

\* Compositor.strongest_match: the outcomes the call can have.
Compositor_strongest_match(defs, overlay, mode) ==
    LET matches == Matches(defs, overlay, mode)
    IN IF matches = <<>> THEN {Return(None)} ELSE SortedFirst(matches)

\* Compositor.apply that hands every value over as given.
Compositor_apply_AsGiven(self, value, input_ranges, key) ==
    IF IsNone(key)
    THEN OperationResult(self.operation, "call", value, input_ranges,
                         None, self.kwargs)
    ELSE OperationResult(self.operation, "process_element", value,
                         input_ranges, key, self.kwargs)

\* Compositor.apply
Compositor_apply(self, value, input_ranges, key) ==
    LET given == IF value.composite /\ Len(value.values) = 1
                 THEN value.values[1] ELSE value
    IN IF IsNone(key)
       THEN OperationResult(self.operation, "call", given, input_ranges,
                            None, self.kwargs)
       ELSE OperationResult(self.operation, "process_element", given,
                            input_ranges, key, self.kwargs)

\* Compositor.collapse_element without the assignment of the id.
CollapseMatch_NewId(match, overlay, key, ranges) ==
    IF match.raised THEN match
    ELSE IF IsNone(match.value) THEN Return(overlay)
    ELSE LET applicable_op == match.value[1][2]
             start == match.value[1][3][1]
             stop == match.value[1][3][2]
             values == overlay.values
             sliced == Overlay_from_values(SubSeq(values, start + 1, stop))
             result == relabel(Compositor_apply(applicable_op, sliced, ranges, key),
                               applicable_op.group)
         IN Return(Overlay_from_values(SubSeq(values, 1, start) \o <<result>>
                                       \o SubSeq(values, stop + 1, Len(values))))

\* Compositor.collapse_element, given what strongest_match came to.
CollapseMatch(match, overlay, key, ranges) ==
    IF match.raised THEN match
    ELSE IF IsNone(match.value) THEN Return(overlay)
    ELSE LET applicable_op == match.value[1][2]
             start == match.value[1][3][1]
             stop == match.value[1][3][2]
             values == overlay.values
             sliced == Overlay_from_values(SubSeq(values, start + 1, stop))
             result == relabel(Compositor_apply(applicable_op, sliced, ranges, key),
                               applicable_op.group)
             output == Overlay_from_values(SubSeq(values, 1, start) \o <<result>>
                                           \o SubSeq(values, stop + 1, Len(values)))
         IN Return([output EXCEPT !.id = overlay.id])

\* Compositor.collapse_element: the outcomes the call can have.
Compositor_collapse_element(defs, overlay, key, ranges, mode) ==
    {CollapseMatch(match, overlay, key, ranges) :
        match \in Compositor_strongest_match(defs, overlay, mode)}

\* list.pop(list.index(x)) for the first x of the list.
RemoveFirst(list, i) == SubSeq(list, 1, i - 1) \o SubSeq(list, i + 1, Len(list))

\* Compositor.register that keeps the compositor it replaces.
Compositor_register_KeepsOld(defs, ops, compositor) ==
    [definitions |-> Append(defs, compositor),
     operations |-> IF InList(compositor.operation, ops) THEN ops
                    ELSE Append(ops, compositor.operation)]

\* Compositor.register that lists an operation once per registration.
Compositor_register_RepeatsOperation(defs, ops, compositor) ==
    LET defined_groups == [i \in 1..Len(defs) |-> defs[i].group]
        kept == IF InList(compositor.group, defined_groups)
                THEN RemoveFirst(defs, CHOOSE i \in 1..Len(defs) :
                                     /\ defined_groups[i] = compositor.group
                                     /\ \A j \in 1..(i - 1) :
                                            defined_groups[j] # compositor.group)
                ELSE defs
    IN [definitions |-> Append(kept, compositor),
        operations |-> Append(ops, compositor.operation)]

\* Compositor.register: the two class attributes after the call.
Compositor_register(defs, ops, compositor) ==
    LET defined_groups == [i \in 1..Len(defs) |-> defs[i].group]
        kept == IF InList(compositor.group, defined_groups)
                THEN RemoveFirst(defs, CHOOSE i \in 1..Len(defs) :
                                     /\ defined_groups[i] = compositor.group
                                     /\ \A j \in 1..(i - 1) :
                                            defined_groups[j] # compositor.group)
                ELSE defs
    IN [definitions |-> Append(kept, compositor),
        operations |-> IF InList(compositor.operation, ops) THEN ops
                       ELSE Append(ops, compositor.operation)]

(***************************************************************************)
(* Inputs of the Compositor operations.                                    *)
(***************************************************************************)
Image == <<"Image">>
Curve == <<"Curve">>
RGB == <<"RGB">>
Gray == <<"Gray">>
Red == <<"Red">>

\* 'Image.R * Image.G * Image.B'
PatternRGB ==
    <<"Image", ".", "R", " ", "*", " ", "Image", ".", "G", " ", "*", " ",
      "Image", ".", "B">>
\* 'Image'
PatternImage == <<"Image">>
\* 'Image.R'
PatternImageR == <<"Image", ".", "R">>
\* 'Image.R.a * Image.G.b': the labels of the two elements differ
PatternMismatched ==
    <<"Image", ".", "R", ".", "a", " ", "*", " ", "Image", ".", "G", ".", "b">>

Modes == {"data", "display"}
Operations == {"op1", "op2"}

ImageR == Element(Image, <<"R">>, <<>>)
ImageG == Element(Image, <<"G">>, <<>>)
ImageB == Element(Image, <<"B">>, <<>>)
CurveR == Element(Curve, <<"R">>, <<>>)
Elements == {ImageR, ImageG, ImageB, CurveR}

Overlays == {Overlay_from_values(values) : values \in SeqUpTo(Elements, MaxOverlay)}

\* The arguments of Compositor(...) in the registry specification.
RegistryArgs ==
    ({PatternImage, PatternImageR} \X Operations \X {RGB, Gray, Red} \X {"data"})
        \cup {<<PatternMismatched, "op1", RGB, "data">>}

\* The arguments of Compositor(...) in the matching specification: three
\* compositors for each of two groups.
MatchingArgs ==
    {<<PatternRGB, "op1", RGB, "data">>,
     <<PatternRGB, "op1", RGB, "display">>,
     <<PatternImageR, "op2", RGB, "data">>,
     <<PatternImage, "op2", Gray, "data">>,
     <<PatternImage, "op1", Gray, "display">>,
     <<PatternImageR, "op1", Gray, "data">>}

InitCompositor == Idle /\ NoTree /\ NoCompositors /\ NoCustomOptions

(***************************************************************************)
(* Specifications of the Compositor operations.                            *)
(***************************************************************************)
\* Compositor.register(Compositor(pattern, operation, group, mode)): when
\* the construction raises, nothing is registered.
Registered(a) ==
    LET made == Compositor_init(a[1], a[2], a[3], a[4], EmptyDict)
        registered == Compositor_register(definitions, operations, made.value)
    IN /\ ret' = IF made.raised THEN made ELSE Return(None)
       /\ definitions' = IF made.raised THEN definitions
                         ELSE registered.definitions
       /\ operations' = IF made.raised THEN operations
                        ELSE registered.operations
       /\ UNCHANGED <<treeVars, storeVars>>

Register ==
    \E a \in RegistryArgs :
        /\ call' = [op |-> "register", pattern |-> a[1], operation |-> a[2],
                    group |-> a[3], mode |-> a[4]]
        /\ Registered(a)

NextRegistry == Register

SpecRegistry == InitCompositor /\ [][NextRegistry]_vars

\* A query leaves the registry as it is, so a query made right after another
\* one, or a registration made right after a query, reaches nothing that is
\* not reached without the query in between.
AfterRegistration == call.op \in {"none", "register"}

RegisterMatching ==
    /\ AfterRegistration
    /\ \E a \in MatchingArgs : call' = [op |-> "register"] /\ Registered(a)

\* compositor.match_level(overlay) for a registered compositor
MatchLevel ==
    /\ AfterRegistration
    /\ \E i \in 1..Len(definitions), overlay \in Overlays :
        /\ call' = [op |-> "match_level", self |-> definitions[i],
                    overlay |-> overlay]
        /\ ret' = Return(Compositor_match_level(definitions[i], overlay))
    /\ UNCHANGED <<treeVars, compositorVars, storeVars>>

\* Compositor.strongest_match(overlay, mode)
StrongestMatch ==
    /\ AfterRegistration
    /\ \E overlay \in Overlays, mode \in Modes :
        /\ call' = [op |-> "strongest_match", overlay |-> overlay, mode |-> mode]
        /\ ret' \in Compositor_strongest_match(definitions, overlay, mode)
    /\ UNCHANGED <<treeVars, compositorVars, storeVars>>

\* Compositor.collapse_element(overlay, key, ranges, mode), for an overlay
\* with or without an id
CollapseElement ==
    /\ AfterRegistration
    /\ \E o \in Overlays, id \in {None, Some(1)}, key \in {None, Some(1)},
          mode \in Modes :
        LET overlay == [o EXCEPT !.id = id]
        IN /\ call' = [op |-> "collapse_element", overlay |-> overlay,
                       key |-> key, ranges |-> None, mode |-> mode]
           /\ ret' \in Compositor_collapse_element(definitions, overlay, key,
                                                   None, mode)
    /\ UNCHANGED <<treeVars, compositorVars, storeVars>>

NextCompositor == RegisterMatching \/ MatchLevel \/ StrongestMatch \/ CollapseElement

SpecCompositor == InitCompositor /\ [][NextCompositor]_vars

(***************************************************************************)
(* Claims about the Compositor registry.                                   *)
(***************************************************************************)
GroupsDistinct(defs) ==
    \A i, j \in 1..Len(defs) : i # j => defs[i].group # defs[j].group

NoDuplicates(list) ==
    \A i, j \in 1..Len(list) : i # j => list[i] # list[j]

\* The compositors of a list that are not of the group.
Others(defs, group) == SelectSeq(defs, LAMBDA op : op.group # group)

\* The step registered a compositor (its construction did not raise).
Registers == call'.op = "register" /\ ~ret'.raised

\* C3: Compositor.definitions holds at most one compositor per group, and a
\* registration leaves the compositors of the other groups in the order they
\* had, drops the one of the registered group, if any, and adds the new
\* compositor at the end.
C3_OneCompositorPerGroup ==
    [][/\ GroupsDistinct(definitions')
       /\ Registers =>
            LET new == definitions'[Len(definitions')]
            IN /\ new.group = call'.group
               /\ new.operation = call'.operation
               /\ new.pattern = call'.pattern
               /\ definitions' = Append(Others(definitions, call'.group), new)]_vars

\* C3 witness: the first compositor ever registered used op1 and has been
\* replaced since, with two compositors of other groups registered between.
C3_Witness ==
    /\ call.op = "register"
    /\ ~ret.raised
    /\ Len(definitions) = 3
    /\ definitions[1].operation = "op2"
    /\ definitions[2].operation = "op2"
    /\ definitions[3].operation = "op1"
    /\ operations = <<"op1", "op2">>

\* C4: Compositor.operations never holds an operation twice and never loses
\* one; a registration adds its operation at the end when the list does not
\* hold it yet, and leaves the list as it is otherwise; so the list holds,
\* in the order of their first registration, every operation registered so
\* far, those of the compositors in Compositor.definitions among them.
C4_OperationsListedOnce ==
    [][/\ NoDuplicates(operations')
       /\ IsPrefix(operations, operations')
       /\ \A i \in 1..Len(definitions') :
              InList(definitions'[i].operation, operations')
       /\ Registers =>
            operations' = IF InList(call'.operation, operations) THEN operations
                          ELSE Append(operations, call'.operation)
       /\ ~Registers => operations' = operations]_vars

\* C4 witness: op1 is listed, after op2, though the compositor that
\* introduced it has been replaced and none in the registry uses it.
C4_Witness ==
    /\ operations = <<"op2", "op1">>
    /\ Len(definitions) = 2
    /\ \A i \in 1..Len(definitions) : definitions[i].operation = "op2"

(***************************************************************************)
(* Claims about matching.                                                  *)
(***************************************************************************)
\* The compositors of the registry that have the mode and match the overlay.
Candidates(overlay, mode) ==
    {i \in 1..Len(definitions) :
        /\ definitions[i].mode = mode
        /\ ~IsNone(Compositor_match_level(definitions[i], overlay))}

Level(i, overlay) == Compositor_match_level(definitions[i], overlay)[1][1]

\* <<level, compositor, slice>> of a candidate whose level no candidate's
\* level is below.
IsLowestMatch(m, overlay, mode) ==
    \E i \in Candidates(overlay, mode) :
        /\ m = <<Level(i, overlay), definitions[i],
                 Compositor_match_level(definitions[i], overlay)[1][2]>>
        /\ \A j \in Candidates(overlay, mode) : Level(i, overlay) <= Level(j, overlay)

\* C5: strongest_match returns None exactly when no compositor of the mode
\* matches the overlay, and otherwise returns <<level, compositor, slice>>
\* for a compositor of the mode whose level is the lowest of the matching
\* ones.
C5_ReturnsLowestMatch ==
    call.op = "strongest_match" =>
        /\ ~ret.raised
        /\ IsNone(ret.value) <=> Candidates(call.overlay, call.mode) = {}
        /\ ~IsNone(ret.value) => IsLowestMatch(ret.value[1], call.overlay, call.mode)

\* C5, where the claim holds: the same, for the calls in which no two
\* matching compositors of the mode have the same level.
C5_ReturnsLowestMatchWithoutTies ==
    (/\ call.op = "strongest_match"
     /\ \A i, j \in Candidates(call.overlay, call.mode) :
            i # j => Level(i, call.overlay) # Level(j, call.overlay))
        => /\ ~ret.raised
           /\ IsNone(ret.value) <=> Candidates(call.overlay, call.mode) = {}
           /\ ~IsNone(ret.value)
                 => IsLowestMatch(ret.value[1], call.overlay, call.mode)

\* The weakest of two matches was returned: levels 6 and 1, the 1 returned.
C5_WeakestReturned ==
    /\ call.op = "strongest_match"
    /\ Cardinality(Candidates(call.overlay, call.mode)) = 2
    /\ \E i \in Candidates(call.overlay, call.mode) : Level(i, call.overlay) = 6
    /\ ~ret.raised
    /\ ret.value[1][1] = 1

\* The level of the window of the overlay that starts after element i:
\* Some(level) or None.
WindowLevel(self, overlay, i) ==
    Compositor_slice_match_level(
        self.pattern_spec,
        SubSeq(overlay.values, i + 1, i + Len(self.pattern_spec)))

MatchingWindows(self, overlay) ==
    {i \in 0..(Len(overlay.values) - Len(self.pattern_spec)) :
        ~IsNone(WindowLevel(self, overlay, i))}

\* C6: match_level returns None when the pattern is longer than the overlay
\* or no window of the pattern's width matches; otherwise it returns
\* (level, (start, start + width)) where level is the highest level of a
\* window and start the first window that has it.
C6_MatchLevelIsFirstBestWindow ==
    call.op = "match_level" =>
        LET self == call.self
            overlay == call.overlay
            width == Len(self.pattern_spec)
            windows == MatchingWindows(self, overlay)
        IN /\ ~ret.raised
           /\ IF width > Len(overlay.values) \/ windows = {}
              THEN IsNone(ret.value)
              ELSE \E start \in windows :
                      /\ ret.value = Some(<<WindowLevel(self, overlay, start)[1],
                                            <<start, start + width>>>>)
                      /\ \A j \in windows :
                            /\ WindowLevel(self, overlay, j)[1]
                                  <= WindowLevel(self, overlay, start)[1]
                            /\ WindowLevel(self, overlay, j)[1]
                                  = WindowLevel(self, overlay, start)[1]
                                  => start <= j

\* C6 witness: two windows match and neither is the first window of the
\* overlay; the earlier of the two is returned.
C6_Witness ==
    /\ call.op = "match_level"
    /\ MatchingWindows(call.self, call.overlay) = {1, 2}
    /\ ret.value = Some(<<1, <<1, 2>>>>)

\* The matches strongest_match can find for a collapse_element call.
Found(c) ==
    {o.value[1] : o \in {o \in Compositor_strongest_match(definitions, c.overlay, c.mode) :
                            ~o.raised /\ ~IsNone(o.value)}}

\* What collapse_element is to return for the match <<level, compositor,
\* (start, stop)>>: the elements before the slice, the result of the
\* compositor's operation on the slice, relabelled, and the elements after
\* the slice, under the id of the overlay given.
SplicedAsClaimed(out, c, match) ==
    LET compositor == match[2]
        start == match[3][1]
        stop == match[3][2]
        values == c.overlay.values
        r == out.values[start + 1]
    IN /\ out.composite
       /\ Len(out.values) = Len(values) - (stop - start - 1)
       /\ \A i \in 1..start : out.values[i] = values[i]
       /\ \A i \in (stop + 1)..Len(values) :
              out.values[i - (stop - start - 1)] = values[i]
       /\ r = relabel(Compositor_apply(compositor,
                                       Overlay_from_values(SubSeq(values, start + 1, stop)),
                                       c.ranges, c.key),
                      compositor.group)
       /\ r.group = compositor.group
       /\ r.operation = compositor.operation
       /\ out.id = c.overlay.id

\* C7: when strongest_match finds a compositor with slice (start, stop),
\* collapse_element returns a new overlay of values[:start] + [r] +
\* values[stop:], r being the result of the compositor's operation on the
\* slice relabelled with the compositor's group; the other elements keep
\* their order, the overlay is shorter by stop - start - 1 and has the id of
\* the overlay given.  With 'Image.R * Image.G * Image.B' of group RGB alone
\* in the registry, the overlay of exactly these three elements collapses
\* to one element of group RGB.
C7_CollapseSplicesResult ==
    (call.op = "collapse_element" /\ ~ret.raised /\ Found(call) # {}) =>
        /\ \E match \in Found(call) : SplicedAsClaimed(ret.value, call, match)
        /\ (/\ Len(definitions) = 1
            /\ definitions[1].pattern = PatternRGB
            /\ definitions[1].group = RGB
            /\ definitions[1].mode = call.mode
            /\ call.overlay.values = <<ImageR, ImageG, ImageB>>)
              => /\ Len(ret.value.values) = 1
                 /\ ret.value.values[1].group = RGB

\* C7 witness: the middle element of an overlay that has an id was
\* collapsed, the elements around it and the id are kept.
C7_Witness ==
    /\ call.op = "collapse_element"
    /\ ~ret.raised
    /\ call.overlay.id = Some(1)
    /\ call.overlay.values = <<CurveR, ImageR, ImageG>>
    /\ \E match \in Found(call) : match[3] = <<1, 2>>
    /\ ret.value.values[1] = CurveR
    /\ ret.value.values[2].group = Gray
    /\ ret.value.values[3] = ImageG
    /\ ret.value.id = Some(1)

\* C7 witness of the example: the three elements collapsed to one.
C7_ExampleReached ==
    /\ call.op = "collapse_element"
    /\ Len(definitions) = 1
    /\ definitions[1].pattern = PatternRGB
    /\ call.overlay.values = <<ImageR, ImageG, ImageB>>
    /\ ~ret.raised
    /\ Len(ret.value.values) = 1

(***************************************************************************)
(* Store (options.py 658-796).                                             *)
(***************************************************************************)
KeyError(key) == [type |-> "KeyError", key |-> key]

\* Store.lookup_options that takes the global tree for an id it does not know.
Store_lookup_options_FallsBack(global, custom, obj, group) ==
    IF IsNone(obj.id) \/ obj.id[1] \notin DOMAIN custom
    THEN OptionTree_closest(global, obj, group)
    ELSE OptionTree_closest(custom[obj.id[1]], obj, group)

\* Store.lookup_options
Store_lookup_options(global, custom, obj, group) ==
    IF IsNone(obj.id) THEN OptionTree_closest(global, obj, group)
    ELSE IF obj.id[1] \in DOMAIN custom
    THEN OptionTree_closest(custom[obj.id[1]], obj, group)
    ELSE Raise(KeyError(obj.id[1]))

\* obj.traverse(lambda x: x.id): the id of the object and of each of its
\* constituent parts, in order.
traverse_ids(obj) == <<obj.id>> \o [i \in 1..Len(obj.values) |-> obj.values[i].id]

\* sorted(ids) for a set of numbers.
RECURSIVE SortedIds(_)
SortedIds(ids) ==
    IF ids = {} THEN <<>>
    ELSE LET least == CHOOSE i \in ids : \A j \in ids : i <= j
         IN <<least>> \o SortedIds(ids \ {least})

\* Store.lookup that takes the lowest of several ids.
Store_lookup_LowestId(custom, obj) ==
    LET found == traverse_ids(obj)
        ids == {found[i][1] : i \in {i \in 1..Len(found) : ~IsNone(found[i])}}
    IN IF Cardinality(ids) = 0
       THEN Raise([type |-> "Exception", message |-> "no custom options tree"])
       ELSE LET id == SortedIds(ids)[1]
            IN IF id \in DOMAIN custom THEN Return(custom[id])
               ELSE Raise(KeyError(id))

\* Store.lookup
Store_lookup(custom, obj) ==
    LET found == traverse_ids(obj)
        ids == {found[i][1] : i \in {i \in 1..Len(found) : ~IsNone(found[i])}}
    IN IF Cardinality(ids) = 0
       THEN Raise([type |-> "Exception", message |-> "no custom options tree"])
       ELSE IF Cardinality(ids) # 1
       THEN Raise([type |-> "Exception", message |-> "multiple custom trees",
                   idlist |-> SortedIds(ids)])
       ELSE LET id == CHOOSE i \in ids : TRUE
            IN IF id \in DOMAIN custom THEN Return(custom[id])
               ELSE Raise(KeyError(id))

(***************************************************************************)
(* Inputs of the Store operations.                                         *)
(***************************************************************************)
\* Store.options as the module leaves it.
BareTree == OptionTree_init(<<>>, RootGroups).value

\* A tree with the node Image, and the node Image.R below it, set to a value
\* of the plot keyword x.
TreeWith(v, w) ==
    LET withImage == OptionTree_setattr(BareTree, <<>>, TRUE, Image,
                         DictVal("plot" :> Opts(None, None, "x" :> v))).value
    IN OptionTree_setattr(withImage, <<Image>>, TRUE, <<"R">>,
                          DictVal("plot" :> Opts(None, None, "x" :> w))).value

\* The trees made for objects with options of their own.
CustomTrees == {TreeWith(V2, V1), TreeWith(V2, V2)}

Ids == {1, 2, 3}
OptionalIds == {None} \cup {Some(i) : i \in Ids}

\* The objects looked up: elements and overlays of elements, with ids.
WithId(obj, id) == [obj EXCEPT !.id = id]
StoredElements == {WithId(e, id) : e \in {ImageR, ImageG, CurveR}, id \in OptionalIds}
StoredOverlays ==
    {WithId(Overlay_from_values(values), id) :
        values \in SeqUpTo({WithId(ImageR, id) : id \in OptionalIds}, MaxParts),
        id \in OptionalIds}

InitStore ==
    /\ Idle /\ NoTree /\ NoCompositors
    /\ Store_options = BareTree
    /\ custom_options = EmptyDict
    /\ NoPickling /\ NoDefaults

(***************************************************************************)
(* Specification of the Store operations.                                  *)
(***************************************************************************)
AfterUpdate == call.op \in {"none", "set_options", "set_custom"}

\* Store.options.Image = {plot: Options(x=1)}: an assignment on the global
\* tree
SetOptions ==
    /\ AfterUpdate
    /\ LET set == OptionTree_setattr(Store_options, <<>>, TRUE, Image,
                      DictVal("plot" :> Opts(None, None, "x" :> V1)))
       IN /\ call' = [op |-> "set_options"]
          /\ ret' = Return(None)
          /\ Store_options' = set.value
    /\ UNCHANGED <<treeVars, compositorVars, Store_defaults, custom_options, flagVars>>

\* Store.custom_options[id] = tree
SetCustom ==
    /\ AfterUpdate
    /\ \E id \in Ids, t \in CustomTrees :
        /\ call' = [op |-> "set_custom"]
        /\ ret' = Return(None)
        /\ custom_options' =
               [i \in DOMAIN custom_options \cup {id} |->
                   IF i = id THEN t ELSE custom_options[i]]
    /\ UNCHANGED <<treeVars, compositorVars, Store_defaults, Store_options, flagVars>>

\* Store.lookup_options(obj, group)
LookupOptions ==
    /\ AfterUpdate
    /\ \E obj \in StoredElements, group \in {"plot", "style", "other"} :
        /\ call' = [op |-> "lookup_options", obj |-> obj, group |-> group]
        /\ ret' = Store_lookup_options(Store_options, custom_options, obj, group)
    /\ UNCHANGED <<treeVars, compositorVars, storeVars>>

\* Store.lookup(obj)
Lookup ==
    /\ AfterUpdate
    /\ \E obj \in StoredOverlays :
        /\ call' = [op |-> "lookup", obj |-> obj]
        /\ ret' = Store_lookup(custom_options, obj)
    /\ UNCHANGED <<treeVars, compositorVars, storeVars>>

NextStore == SetOptions \/ SetCustom \/ LookupOptions \/ Lookup

SpecStore == InitStore /\ [][NextStore]_vars

(***************************************************************************)
(* Claims about the Store.                                                 *)
(***************************************************************************)
\* C8: lookup_options resolves against the global tree exactly when the
\* object has no id, against the custom tree of its id when the id is
\* registered, and raises a KeyError when the object has an id that is not
\* registered: it never falls back to the global tree.
C8_LookupOptionsByIdentity ==
    call.op = "lookup_options" =>
        LET id == call.obj.id
        IN /\ IsNone(id) =>
                ret = OptionTree_closest(Store_options, call.obj, call.group)
           /\ (~IsNone(id) /\ id[1] \in DOMAIN custom_options) =>
                ret = OptionTree_closest(custom_options[id[1]], call.obj, call.group)
           /\ (~IsNone(id) /\ id[1] \notin DOMAIN custom_options) =>
                ret.raised /\ ret.exc.type = "KeyError"

\* C8 witness: an object with an id that is not registered was looked up
\* while the global tree and a custom tree resolve its group differently;
\* the lookup raised.
C8_Witness ==
    /\ call.op = "lookup_options"
    /\ call.obj.id = Some(2)
    /\ DOMAIN custom_options = {1}
    /\ ~OptionTree_closest(Store_options, call.obj, call.group).raised
    /\ OptionTree_closest(Store_options, call.obj, call.group)
          # OptionTree_closest(custom_options[1], call.obj, call.group)
    /\ ret.raised

\* The ids lookup finds on an object: its own and those of its parts.
IdsOf(obj) ==
    {id[1] : id \in ({obj.id} \cup {obj.values[i].id : i \in 1..Len(obj.values)}) \ {None}}

IsAscending(list) == \A i, j \in 1..Len(list) : i < j => list[i] < list[j]

\* C9: lookup succeeds only when exactly one id is found on the object, and
\* then returns the custom tree registered under that id; it raises an error
\* when no id is found, and another error, which lists the ids in ascending
\* order, when several are found.
C9_LookupNeedsOneIdentity ==
    call.op = "lookup" =>
        LET ids == IdsOf(call.obj)
        IN /\ ~ret.raised =>
                /\ Cardinality(ids) = 1
                /\ \E id \in ids : id \in DOMAIN custom_options
                                   /\ ret.value = custom_options[id]
           /\ ids = {} =>
                /\ ret.raised
                /\ "message" \in DOMAIN ret.exc
                /\ ret.exc.message = "no custom options tree"
           /\ Cardinality(ids) > 1 =>
                /\ ret.raised
                /\ "message" \in DOMAIN ret.exc
                /\ ret.exc.message = "multiple custom trees"
                /\ {ret.exc.idlist[i] : i \in 1..Len(ret.exc.idlist)} = ids
                /\ Len(ret.exc.idlist) = Cardinality(ids)
                /\ IsAscending(ret.exc.idlist)

\* C9 witness: an overlay whose parts carry two registered ids, the higher
\* one met first, was looked up, and the lookup raised.
C9_Witness ==
    /\ call.op = "lookup"
    /\ call.obj.id = None
    /\ Len(call.obj.values) = 2
    /\ call.obj.values[1].id = Some(3)
    /\ call.obj.values[2].id = Some(1)
    /\ {1, 3} \subseteq DOMAIN custom_options
    /\ ret.raised
    /\ ret.exc.idlist = <<1, 3>>

\* C9 witness of a lookup that succeeds: two parts share the one id found.
C9_FoundReached ==
    /\ call.op = "lookup"
    /\ IdsOf(call.obj) = {2}
    /\ Len(call.obj.values) = 2
    /\ ~ret.raised

(***************************************************************************)
(* Specification of OptionTree.find on a tree grown by attribute access.   *)
(***************************************************************************)
Sub == <<"Sub">>
MyImage == <<"My", " ", "Image">>
FindNames == {Image, Sub, MyImage}

InitFind ==
    /\ Idle /\ NoCompositors /\ NoCustomOptions
    /\ tree = BareTree
    /\ assigned = 0

AfterAccess == call.op \in {"none", "getattr"}

\* node.identifier, for an identifier that is no attribute of the node yet
\* or names one of its children
GetAttr ==
    /\ AfterAccess
    /\ assigned < MaxAssign
    /\ \E self \in DOMAIN tree, identifier \in FindNames :
        LET got == OptionTree_getattr(tree, self, identifier)
        IN /\ call' = [op |-> "getattr"]
           /\ ret' = IF got.raised THEN got ELSE Return(got.value.node)
           /\ tree' = IF got.raised THEN tree ELSE got.value.tree
    /\ assigned' = assigned + 1
    /\ UNCHANGED <<compositorVars, storeVars>>

\* root.find(path, mode)
Find ==
    /\ AfterAccess
    /\ \E path \in SeqUpTo(FindNames, MaxPath), mode \in {"node", "path"} :
        /\ call' = [op |-> "find", path |-> path, mode |-> mode]
        /\ ret' = Return(OptionTree_find(tree, path, mode))
    /\ UNCHANGED <<treeVars, compositorVars, storeVars>>

NextFind == GetAttr \/ Find

SpecFind == InitFind /\ [][NextFind]_vars

(***************************************************************************)
(* Claims about OptionTree.find.                                           *)
(***************************************************************************)
\* A child of the node suffix-matches the segment, raw or sanitized.
Matches_(t, node, segment) ==
    {c \in {t[node].children[i] : i \in 1..Len(t[node].children)} :
        EndsWith(segment, c) \/ EndsWith(sanitize_identifier(segment), c)}

\* walk[i] is a node find can be at after i segments of the path: the root
\* at first; after a segment no child matches, the node it was at; after any
\* other segment, a child that matches it.
IsWalk(t, path, walk) ==
    /\ walk[1] = <<>>
    /\ \A i \in 1..Len(path) :
          IF Matches_(t, walk[i], path[i]) = {}
          THEN walk[i + 1] = walk[i]
          ELSE \E c \in Matches_(t, walk[i], path[i]) : walk[i + 1] = walk[i] \o <<c>>

\* C10: find never fails and returns a node of the tree, or the path of one:
\* the end of a walk from the root in which a segment that matches no child
\* leaves the node as it is and the next segments are matched against that
\* node.  With Image the only child, find([Image, Sub]) is the node Image,
\* and its path is [Image].
C10_FindSkipsUnmatchedSegments ==
    call.op = "find" =>
        LET found == IF call.mode = "node" THEN ret.value.node ELSE ret.value.path
        IN /\ ~ret.raised
           /\ found \in DOMAIN tree
           /\ \E walk \in [1..(Len(call.path) + 1) -> DOMAIN tree] :
                 IsWalk(tree, call.path, walk) /\ found = walk[Len(call.path) + 1]
           /\ (DOMAIN tree = {<<>>, <<Image>>} /\ call.path = <<Image, Sub>>)
                 => found = <<Image>>

\* C10 witness: the first segment of the path matches no child of the root
\* and the second one does; the node found is that child.
C10_Witness ==
    /\ call.op = "find"
    /\ call.mode = "node"
    /\ call.path = <<Sub, MyImage>>
    /\ tree[<<>>].children = <<Image>>
    /\ ret.value.node = <<Image>>

\* C10 witness of the example.
C10_ExampleReached ==
    /\ call.op = "find"
    /\ call.mode = "path"
    /\ call.path = <<Image, Sub>>
    /\ DOMAIN tree = {<<>>, <<Image>>}
    /\ ret.value.path = <<Image>>


\* The position of a child among the children of a node: the order in which
\* the children were inserted.
Position(t, node, c) ==
    CHOOSE i \in 1..Len(t[node].children) : t[node].children[i] = c

\* c is the longest of the children of node that match the segment, and the
\* one inserted first among the matching children of that length.
IsLongestMatch(t, node, segment, c) ==
    /\ c \in Matches_(t, node, segment)
    /\ \A d \in Matches_(t, node, segment) :
          \/ Len(d) < Len(c)
          \/ Len(d) = Len(c) /\ Position(t, node, c) <= Position(t, node, d)

\* walk[i] is the node find is at after i segments when every step takes the
\* longest match.
IsLongestWalk(t, path, walk) ==
    /\ walk[1] = <<>>
    /\ \A i \in 1..Len(path) :
          IF Matches_(t, walk[i], path[i]) = {}
          THEN walk[i + 1] = walk[i]
          ELSE \E c \in Matches_(t, walk[i], path[i]) :
                  /\ IsLongestMatch(t, walk[i], path[i], c)
                  /\ walk[i + 1] = walk[i] \o <<c>>

\* Identifiers a node could have as children, some of them of equal length.
SortedNames == {Image, Sub, sanitize_identifier(MyImage), <<"My", "_", "Sub">>}

\* The first of the longest elements of a list.
FirstLongest(list) ==
    list[CHOOSE i \in 1..Len(list) :
            /\ \A j \in 1..Len(list) : Len(list[j]) <= Len(list[i])
            /\ \A j \in 1..(i - 1) : Len(list[j]) < Len(list[i])]

\* C11: at every step of find the child taken is, among the children of the
\* current node whose identifier is a suffix of the segment (raw or
\* sanitized), the one with the longest identifier; the sort that puts it
\* first keeps identifiers of equal length in the order of the list, so that
\* of two matching children of equal length the one inserted first is taken.
C11_FindTakesLongestSuffixMatch ==
    /\ call.op = "find" =>
          LET found == IF call.mode = "node" THEN ret.value.node ELSE ret.value.path
          IN \E walk \in [1..(Len(call.path) + 1) -> DOMAIN tree] :
                /\ IsLongestWalk(tree, call.path, walk)
                /\ found = walk[Len(call.path) + 1]
    /\ \A list \in SeqUpTo(SortedNames, 3) :
          list # <<>> => SortedLongestFirst(list)[1] = FirstLongest(list)

\* C11 witness: the root has the children Image and My_Image, inserted in
\* that order; both match the segment 'My Image', and find took My_Image.
C11_Witness ==
    /\ call.op = "find"
    /\ call.mode = "node"
    /\ call.path = <<MyImage>>
    /\ tree[<<>>].children = <<Image, sanitize_identifier(MyImage)>>
    /\ Matches_(tree, <<>>, MyImage) = {Image, sanitize_identifier(MyImage)}
    /\ ret.value.node = <<sanitize_identifier(MyImage)>>

(***************************************************************************)
(* Cycles and the indexing of Options (options.py 71-115, 226-274).  A     *)
(* keyword value is a record: isCycle tells a Cycle from any other value,  *)
(* values holds the Cycle's values, or the one value itself.               *)
(***************************************************************************)
MaxCycle == 3       \* most values of a Cycle
MaxIndex == 4       \* largest index handed to Options.__getitem__, either sign

\* Cycle(values=values), for a list of values that is not empty.
Cycle(values) == [isCycle |-> TRUE, values |-> values]

Min(S) == CHOOSE n \in S : \A m \in S : n <= m

\* Options._expand_options leaving the static keywords out of the dicts made
\* of the Cycles.
Options_expand_options_CyclicOnly(kwargs) ==
    LET filter_cycles == {k \in DOMAIN kwargs : kwargs[k].isCycle}
    IN IF filter_cycles = {}
       THEN <<[k \in DOMAIN kwargs |-> kwargs[k].values[1]]>>
       ELSE LET n == Min({Len(kwargs[k].values) : k \in filter_cycles})
            IN [j \in 1..n |-> [k \in filter_cycles |-> kwargs[k].values[j]]]

\* Options._expand_options: the list of concrete keyword dicts.  Without a
\* Cycle it is the one dict of the keywords; with Cycles, zip() pairs their
\* values position by position and stops at the end of the shortest, and
\* every dict made of a tuple of the zip also holds the static keywords.
Options_expand_options(kwargs) ==
    LET filter_static == {k \in DOMAIN kwargs : ~kwargs[k].isCycle}
        filter_cycles == {k \in DOMAIN kwargs : kwargs[k].isCycle}
    IN IF filter_cycles = {}
       THEN <<[k \in DOMAIN kwargs |-> kwargs[k].values[1]]>>
       ELSE LET n == Min({Len(kwargs[k].values) : k \in filter_cycles})
            IN [j \in 1..n |->
                   [k \in DOMAIN kwargs |->
                       IF k \in filter_cycles THEN kwargs[k].values[j]
                       ELSE kwargs[k].values[1]]]

\* index % n with the sign of the index dropped.
PyMod_Abs(index, n) == (IF index < 0 THEN -index ELSE index) % n

\* Python's index % n for n > 0: the remainder has the sign of n.
PyMod(index, n) == index % n

\* Options.__getitem__ with the index taken as it is, without the modulo.
Options_getitem_NoWrap(self, index) ==
    LET options == Options_expand_options(self.kwargs)
    IN IF index + 1 \in 1..Len(options) THEN Return(options[index + 1])
       ELSE IF -index \in 1..Len(options)
       THEN Return(options[Len(options) + index + 1])
       ELSE Raise([type |-> "IndexError"])

\* Options.__getitem__
Options_getitem(self, index) ==
    LET options == Options_expand_options(self.kwargs)
    IN IF Len(options) = 0 THEN Raise([type |-> "ZeroDivisionError"])
       ELSE Return(options[PyMod(index, Len(options)) + 1])

\* Options.options
Options_options(self) ==
    LET options == Options_expand_options(self.kwargs)
    IN IF Len(options) = 1 THEN Return(options[1])
       ELSE Raise([type |-> "Exception", message |-> "non-cyclic only"])

(***************************************************************************)
(* Specification of the indexing of Options.                               *)
(***************************************************************************)
CycleValues == {1, 2}
Cycles == {Cycle(s) : s \in SeqUpTo(CycleValues, MaxCycle) \ {<<>>}}
CyclicKwargDicts == UNION {[D -> Values \cup Cycles] : D \in SUBSET Keywords}
Indices == (-MaxIndex)..MaxIndex

\* Options(key, allowed_keywords, **kwargs) with Cycles among the values
ConstructCyclic ==
    /\ call = NoCall
    /\ \E allowed_keywords \in {None, Some(<<"y", "x">>)}, kwargs \in CyclicKwargDicts :
        /\ call' = [op |-> "Options", key |-> None,
                    allowed_keywords |-> allowed_keywords, kwargs |-> kwargs]
        /\ ret' = Options_init(None, allowed_keywords, kwargs)
    /\ UNCHANGED <<treeVars, compositorVars, storeVars>>

Constructed == call.op = "Options" /\ ~ret.raised

\* o[index], for the Options o constructed last
GetItem ==
    /\ Constructed
    /\ \E index \in Indices :
        /\ call' = [op |-> "getitem", self |-> ret.value, index |-> index]
        /\ ret' = Options_getitem(ret.value, index)
    /\ UNCHANGED <<treeVars, compositorVars, storeVars>>

\* o.options, for the Options o constructed last
GetOptions ==
    /\ Constructed
    /\ call' = [op |-> "options_property", self |-> ret.value]
    /\ ret' = Options_options(ret.value)
    /\ UNCHANGED <<treeVars, compositorVars, storeVars>>

NextIndex == ConstructCyclic \/ GetItem \/ GetOptions

SpecIndex == InitOptions /\ [][NextIndex]_vars

(***************************************************************************)
(* Claims about the indexing of Options.                                   *)
(***************************************************************************)
CycleKeys(o) == {k \in DOMAIN o.kwargs : o.kwargs[k].isCycle}

\* The keyword mapping an Options without Cycles was constructed with.
ConstructedMapping(o) == [k \in DOMAIN o.kwargs |-> o.kwargs[k].values[1]]

\* C12: for an Options without a Cycle among its values, o[i] for every
\* integer i, negative ones included, and o.options are both the keyword
\* mapping the Options was constructed with.
C12_NonCyclicIndexingIsConstant ==
    (call.op \in {"getitem", "options_property"} /\ CycleKeys(call.self) = {}) =>
        /\ ~ret.raised
        /\ ret.value = ConstructedMapping(call.self)
        /\ Options_options(call.self) = Return(ConstructedMapping(call.self))
        /\ \A i \in Indices :
              Options_getitem(call.self, i) = Options_options(call.self)

\* C12 witness: an Options of two static keywords was indexed by -3.
C12_Witness ==
    /\ call.op = "getitem"
    /\ call.index = -3
    /\ call.self.kwargs = ("x" :> V1 @@ "y" :> V2)
    /\ ret = Return("x" :> 1 @@ "y" :> 2)

\* C12 witness of the property: o.options of the same Options was read.
C12_PropertyReached ==
    /\ call.op = "options_property"
    /\ call.self.kwargs = ("x" :> V1 @@ "y" :> V2)
    /\ ret = Return("x" :> 1 @@ "y" :> 2)

\* i mod n, for n > 0: the r in 0..n-1 that differs from i by a multiple of n.
Modulo(i, n) ==
    CHOOSE r \in 0..(n - 1) :
        \E q \in (-(MaxIndex + MaxCycle) - 1)..(MaxIndex + MaxCycle + 1) : i = q * n + r

\* C13: for an Options with one Cycle, of n values, o[i] holds the Cycle's
\* (i mod n)-th value, counted from 0, under the Cycle's keyword and every
\* static keyword's own value; hence o[i] = o[i + n].
C13_CyclicIndexingIsPeriodic ==
    (call.op = "getitem" /\ Cardinality(CycleKeys(call.self)) = 1) =>
        LET c == CHOOSE k \in CycleKeys(call.self) : TRUE
            values == call.self.kwargs[c].values
            n == Len(values)
        IN /\ ~ret.raised
           /\ DOMAIN ret.value = DOMAIN call.self.kwargs
           /\ ret.value[c] = values[Modulo(call.index, n) + 1]
           /\ \A k \in DOMAIN call.self.kwargs \ {c} :
                 ret.value[k] = call.self.kwargs[k].values[1]
           /\ Options_getitem(call.self, call.index + n) = ret
           /\ Options_getitem(call.self, call.index - n) = ret

\* C13 witness: an Options with a Cycle of three values and a static keyword
\* was indexed by -1, which is the Cycle's last value.
C13_Witness ==
    /\ call.op = "getitem"
    /\ call.index = -1
    /\ call.self.kwargs = ("x" :> Cycle(<<1, 1, 2>>) @@ "y" :> V1)
    /\ ret = Return("x" :> 2 @@ "y" :> 1)

(***************************************************************************)
(* Specification of the inheritance of Options by a call.                  *)
(***************************************************************************)
PassedAllowLists == {None, Some(<<>>), Some(<<"x">>), Some(<<"z", "x">>)}
Overrides == UNION {[D -> Values] : D \in SUBSET {"x", "z"}}

\* o(allowed_keywords=allowed_keywords, **kwargs), for the Options o
\* constructed last
CallOptions ==
    /\ Constructed
    /\ \E allowed_keywords \in PassedAllowLists, kwargs \in Overrides :
        /\ call' = [op |-> "call", self |-> ret.value,
                    allowed_keywords |-> allowed_keywords, kwargs |-> kwargs]
        /\ ret' = Options_call(ret.value, allowed_keywords, kwargs)
    /\ UNCHANGED <<treeVars, compositorVars, storeVars>>

NextInherit == ConstructOptions \/ CallOptions

SpecInherit == InitOptions /\ [][NextInherit]_vars

(***************************************************************************)
(* Claims about Options.__call__.                                          *)
(***************************************************************************)
\* The keywords of an Options overlaid by overrides.
Overlaid(o, overrides) ==
    [k \in DOMAIN o.kwargs \cup DOMAIN overrides |->
        IF k \in DOMAIN overrides THEN overrides[k] ELSE o.kwargs[k]]

ListSet(list) == {list[i] : i \in 1..Len(list)}

\* Two allow-lists are the same: both null, or lists of the same keywords.
SameAllowList(a, b) ==
    /\ IsNone(a) <=> IsNone(b)
    /\ ~IsNone(a) => ListSet(a[1]) = ListSet(b[1])

\* A call of an Options behaved as a call validated against the allow-list
\* effective: it raised an OptionError for the alphabetically first keyword
\* of the overlaid mapping outside the list, or, with none outside, returned
\* an Options of the overlaid mapping, the same key and that allow-list.
InheritedWith(c, r, effective) ==
    LET merged == Overlaid(c.self, c.kwargs)
        outside == IF IsNone(effective) THEN {}
                   ELSE {k \in DOMAIN merged : k \notin ListSet(effective[1])}
    IN IF outside # {}
       THEN /\ r.raised
            /\ r.exc.type = "OptionError"
            /\ r.exc.invalid_keyword = AlphabeticallyFirst(outside)
       ELSE /\ ~r.raised
            /\ r.value.kwargs = merged
            /\ r.value.key = c.self.key
            /\ SameAllowList(r.value.allowed_keywords, effective)

\* C14 (as amended): calling an Options with overrides returns a new Options
\* of the overlaid mapping (overrides win) and the same key, validated
\* against its allow-list, which is the one of the Options called unless a
\* non-empty allow-list is passed; an empty allow-list passed leaves the new
\* Options without an allow-list, and nothing is validated.
C14_CallInheritsUnlessNonEmptyListPassed ==
    call.op = "call" =>
        InheritedWith(call, ret,
            IF IsNone(call.allowed_keywords) THEN call.self.allowed_keywords
            ELSE IF call.allowed_keywords[1] = <<>> THEN None
            ELSE call.allowed_keywords)

\* C14 (original): the allow-list is the one of the Options called unless a
\* non-null allow-list is passed, and the overlaid mapping is validated
\* against it.
C14_CallInheritsUnlessNonNullListPassed ==
    call.op = "call" =>
        InheritedWith(call, ret,
            IF IsNone(call.allowed_keywords) THEN call.self.allowed_keywords
            ELSE call.allowed_keywords)

\* C14 witness: an Options with an allow-list and a keyword was called with
\* an override of that keyword and a new one; the new Options holds both and
\* the allow-list.
C14_Witness ==
    /\ call.op = "call"
    /\ call.self.key = Some("plot")
    /\ call.self.allowed_keywords = Some(<<"x", "z">>)
    /\ call.self.kwargs = ("x" :> V1)
    /\ IsNone(call.allowed_keywords)
    /\ call.kwargs = ("x" :> V2 @@ "z" :> V1)
    /\ ret = Return([key |-> Some("plot"), allowed_keywords |-> Some(<<"x", "z">>),
                     kwargs |-> ("x" :> V2 @@ "z" :> V1)])

\* C14 witness of a rejection: the override is outside the inherited
\* allow-list.
C14_RejectionReached ==
    /\ call.op = "call"
    /\ call.self.allowed_keywords = Some(<<"x", "y">>)
    /\ IsNone(call.allowed_keywords)
    /\ call.kwargs = ("z" :> V1)
    /\ ret.raised
    /\ ret.exc.invalid_keyword = "z"

(***************************************************************************)
(* Compositor.collapse (options.py 533-547).  A map of overlays is the     *)
(* ordered list of its (key, overlay) items, the keys distinct.  ranges is *)
(* None or Some(<<ranges, keys>>): the code reads ranges[1] as the list of *)
(* keys.                                                                   *)
(***************************************************************************)
\* holomap.clone(shared_data=False): a map of the same kind without items.
HoloMap_clone(holomap) == <<>>

\* clone[key] = value
HoloMap_setitem(holomap, key, value) ==
    IF \E i \in 1..Len(holomap) : holomap[i][1] = key
    THEN [i \in 1..Len(holomap) |->
             IF holomap[i][1] = key THEN <<key, value>> ELSE holomap[i]]
    ELSE Append(holomap, <<key, value>>)

\* zip(a, b): pairs, as many as the shorter list has elements
Zip(a, b) ==
    [i \in 1..(IF Len(a) <= Len(b) THEN Len(a) ELSE Len(b)) |-> <<a[i], b[i]>>]

\* The pairs the loop of Compositor.collapse goes through.
CollapseData(holomap, ranges) ==
    IF ~IsNone(ranges)
    THEN Zip(ranges[1][2], [i \in 1..Len(holomap) |-> holomap[i][2]])
    ELSE holomap

\* The loop of Compositor.collapse over the pairs left: the outcomes it can
\* have.  An error of collapse_element ends it.
RECURSIVE CollapseInto(_, _, _, _, _)
CollapseInto(defs, data, ranges, mode, clone) ==
    IF data = <<>> THEN {Return(clone)}
    ELSE LET key == data[1][1]
             overlay == data[1][2]
             collapsed == Compositor_collapse_element(defs, overlay, Some(key),
                                                      ranges, mode)
         IN UNION {IF c.raised THEN {c}
                   ELSE CollapseInto(defs, Tail(data), ranges, mode,
                                     HoloMap_setitem(clone, key, c.value)) :
                   c \in collapsed}

\* Compositor.collapse: the outcomes the call can have.
Compositor_collapse(defs, holomap, ranges, mode) ==
    IF defs = <<>> THEN {Return(holomap)}
    ELSE CollapseInto(defs, CollapseData(holomap, ranges), ranges, mode,
                      HoloMap_clone(holomap))

(***************************************************************************)
(* Specification of Compositor.collapse and Compositor.apply.              *)
(***************************************************************************)
MaxMap == 2         \* most items of a map of overlays

MapKeys == 1..MaxMap
MappedOverlays ==
    {Overlay_from_values(<<ImageR>>),
     Overlay_from_values(<<CurveR, ImageR, ImageG, ImageB>>),
     Overlay_from_values(<<CurveR>>)}

\* The maps collapsed: the keys 1..n in order.
HoloMaps ==
    UNION {{[i \in 1..n |-> <<i, overlays[i]>>] : overlays \in [1..n -> MappedOverlays]} :
           n \in 0..MaxMap}

\* The ranges handed to collapse: none, or ranges with a list of keys.
RangesArgs == {None} \cup {Some(<<"ranges", keys>>) : keys \in SeqUpTo(MapKeys, MaxMap)}

\* Compositor.collapse(holomap, ranges, mode)
Collapse ==
    /\ AfterRegistration
    /\ \E holomap \in HoloMaps, ranges \in RangesArgs, mode \in Modes :
        /\ call' = [op |-> "collapse", holomap |-> holomap, ranges |-> ranges,
                    mode |-> mode]
        /\ ret' \in Compositor_collapse(definitions, holomap, ranges, mode)
    /\ UNCHANGED <<treeVars, compositorVars, storeVars>>

\* The values handed to apply: elements and overlays of them.
AppliedValues == Elements \cup Overlays

\* compositor.apply(value, input_ranges, key) for a registered compositor
Apply ==
    /\ AfterRegistration
    /\ \E i \in 1..Len(definitions), value \in AppliedValues, key \in {None, Some(1)} :
        /\ call' = [op |-> "apply", self |-> definitions[i], value |-> value,
                    key |-> key]
        /\ ret' = Return(Compositor_apply(definitions[i], value, None, key))
    /\ UNCHANGED <<treeVars, compositorVars, storeVars>>

NextCollapse == RegisterMatching \/ Collapse \/ Apply

SpecCollapse == InitCompositor /\ [][NextCollapse]_vars

(***************************************************************************)
(* Claims about Compositor.collapse and Compositor.apply.                  *)
(***************************************************************************)
MapKeysOf(holomap) == {holomap[i][1] : i \in 1..Len(holomap)}
MapKeyList(holomap) == [i \in 1..Len(holomap) |-> holomap[i][1]]
MapValue(holomap, key) ==
    holomap[CHOOSE i \in 1..Len(holomap) : holomap[i][1] = key][2]

\* The map returned has the keys of the map given, and under every key what
\* collapse_element can return for the overlay the map given has there.
CollapsedKeyByKey(c, r) ==
    /\ MapKeysOf(r.value) = MapKeysOf(c.holomap)
    /\ Len(r.value) = Len(c.holomap)
    /\ \A key \in MapKeysOf(c.holomap) :
          Return(MapValue(r.value, key))
              \in Compositor_collapse_element(definitions, MapValue(c.holomap, key),
                                              Some(key), c.ranges, c.mode)

\* C15: collapse returns the map it is given when no compositor is
\* registered; otherwise the map it returns has the key set of the map
\* given, each key with collapse_element of the overlay given under that
\* key, whether or not ranges are supplied.
C15_CollapseKeepsKeys ==
    call.op = "collapse" =>
        IF definitions = <<>> THEN ret = Return(call.holomap)
        ELSE ~ret.raised => CollapsedKeyByKey(call, ret)

\* C15 restricted: the same when no ranges are supplied, or when the keys
\* listed in the ranges are the keys of the map in the order of the map.
C15_CollapseKeepsKeysListed ==
    (/\ call.op = "collapse"
     /\ IsNone(call.ranges) \/ call.ranges[1][2] = MapKeyList(call.holomap))
        => IF definitions = <<>> THEN ret = Return(call.holomap)
           ELSE ~ret.raised => CollapsedKeyByKey(call, ret)

\* C15, the failing input: with a compositor registered, a map with the keys
\* 1 and 2 was collapsed with ranges that list the key 2 only; the map
\* returned has the key 2 only, with the collapsed overlay of key 1.
C15_MispairedReached ==
    /\ call.op = "collapse"
    /\ definitions # <<>>
    /\ call.holomap = << <<1, Overlay_from_values(<<CurveR>>)>>,
                         <<2, Overlay_from_values(<<ImageR>>)>> >>
    /\ call.ranges = Some(<<"ranges", <<2>> >>)
    /\ ~ret.raised
    /\ ret.value = << <<2, Overlay_from_values(<<CurveR>>)>> >>

\* C15 witness of a collapse without ranges: the overlay under key 2 was
\* replaced by one with the result of an operation in it.
C15_CollapsedReached ==
    /\ call.op = "collapse"
    /\ IsNone(call.ranges)
    /\ Len(call.holomap) = 2
    /\ ~ret.raised
    /\ MapValue(ret.value, 1) = MapValue(call.holomap, 1)
    /\ MapValue(ret.value, 2) # MapValue(call.holomap, 2)

\* C16: apply hands the operation the one element of a composite overlay
\* that has exactly one element, and every other value (a composite of no
\* or of several elements, or an element) as it is given.
C16_ApplyUnwrapsSingleElement ==
    call.op = "apply" =>
        /\ ~ret.raised
        /\ ret.value.operation = call.self.operation
        /\ ret.value.value =
              IF call.value.composite /\ Len(call.value.values) = 1
              THEN call.value.values[1]
              ELSE call.value

\* C16 witness: an overlay of the one element Image.R was applied, and the
\* operation was given the element.
C16_Witness ==
    /\ call.op = "apply"
    /\ call.value = Overlay_from_values(<<ImageR>>)
    /\ ret.value.value = ImageR

\* C16 witness of a composite passed through: an overlay of two elements.
C16_CompositeReached ==
    /\ call.op = "apply"
    /\ call.value = Overlay_from_values(<<ImageR, ImageG>>)
    /\ ret.value.value = call.value

(***************************************************************************)
(* Specification of repeated assignment on an OptionTree, with Options     *)
(* that carry allow-lists of their own.                                    *)
(***************************************************************************)
AssignedOptions ==
    {DictVal("plot" :> Opts(None, None, "x" :> V1)),
     DictVal("plot" :> Opts(None, None, "y" :> V2)),
     DictVal("plot" :> Opts(None, Some(<<"z">>), "z" :> V1)),
     DictVal("plot" :> Opts(None, Some(<<"x">>), "x" :> V2)),
     DictVal("plot" :> Opts(None, None, "x" :> V2) @@ "style" :> Opts(None, None, "z" :> V1)),
     OptionsVal(Opts(Some("style"), Some(<<"z">>), "z" :> V2)),
     OptionsVal(Opts(None, None, "x" :> V1))}

\* node.identifier = val
AssignOptions ==
    /\ assigned < MaxAssign
    /\ \E self \in DOMAIN tree, identifier \in {A, B}, val \in AssignedOptions :
        LET set == OptionTree_setattr(tree, self, TRUE, identifier, val)
        IN /\ call' = [op |-> "setattr", self |-> self,
                       identifier |-> identifier, val |-> val]
           /\ ret' = IF set.raised THEN set ELSE Return(None)
           /\ tree' = IF set.raised THEN tree ELSE set.value
    /\ assigned' = assigned + 1
    /\ UNCHANGED <<compositorVars, storeVars>>

NextAssign == AssignOptions

SpecAssign == InitTree /\ [][NextAssign]_vars

(***************************************************************************)
(* Claims about assignment on an OptionTree.                               *)
(***************************************************************************)
\* The groups an assigned value names, and the Options it gives for each.
GroupItems(val) ==
    IF val.kind = "dict" THEN val.items
    ELSE IF IsNone(val.options.key) THEN EmptyDict
    ELSE (val.options.key[1] :> val.options)

\* The child an assignment c is made to, and whether tree t has it.
ChildOf(c) == c.self \o <<sanitize_identifier(c.identifier)>>
HasChild(t, c) == ChildOf(c) \in DOMAIN t

\* The step is an assignment that was carried out.
Assigns == call'.op = "setattr" /\ assigned' = assigned + 1
AssignsWell == Assigns /\ ~ret'.raised

\* C17: an assignment to a child that exists leaves the child, for every
\* group the assignment names, with its previous Options for that group
\* overlaid by the keywords supplied (same key, new values win, the other
\* keywords kept), and with its previous Options for every other group; the
\* first assignment starts in the same way from the Options of the node that
\* gets the child, and an assignment that fails changes nothing.
C17_AssignmentAccumulates ==
    [][Assigns =>
          IF ret'.raised THEN tree' = tree
          ELSE LET c == call'
                   before == IF HasChild(tree, c) THEN tree[ChildOf(c)]
                             ELSE tree[c.self]
                   after == tree'[ChildOf(c)]
               IN /\ DOMAIN after.groups = DOMAIN before.groups
                  /\ \A g \in DOMAIN before.groups :
                        IF g \in DOMAIN GroupItems(c.val)
                        THEN /\ after.groups[g].kwargs =
                                   Overlaid(before.groups[g], GroupItems(c.val)[g].kwargs)
                             /\ after.groups[g].key = before.groups[g].key
                        ELSE after.groups[g] = before.groups[g]]_vars

\* C17 witness: the child A, assigned x = 1 for plot before, was assigned
\* y = 2 for plot, and holds both.
C17_Witness ==
    /\ call.op = "setattr"
    /\ call.self = <<>>
    /\ call.identifier = A
    /\ call.val = DictVal("plot" :> Opts(None, None, "y" :> V2))
    /\ ~ret.raised
    /\ tree[<<A>>].groups["plot"].kwargs = ("x" :> V1 @@ "y" :> V2)
    /\ tree[<<>>].groups["plot"].kwargs = EmptyDict

\* The groups of a child for which an assigned value supplies a keyword
\* outside the allow-list the child has for the group.
OutsideGroups(child, val) ==
    {g \in DOMAIN child.groups \cap DOMAIN GroupItems(val) :
        /\ ~IsNone(child.groups[g].allowed_keywords)
        /\ \E k \in DOMAIN GroupItems(val)[g].kwargs :
              k \notin ListSet(child.groups[g].allowed_keywords[1])}

\* C18: an assignment to a child that exists leaves every group of the
\* child with the allow-list it had, whatever allow-list the Options
\* assigned carry; when the assignment supplies a keyword outside the
\* allow-list of a group it fails with an OptionError that carries the name
\* of such a group and the path of the node assigned on.
C18_ExistingChildKeepsAllowList ==
    [][(Assigns /\ HasChild(tree, call')) =>
          LET c == call'
              child == tree[ChildOf(c)]
          IN /\ ChildOf(c) \in DOMAIN tree'
             /\ \A g \in DOMAIN child.groups :
                   tree'[ChildOf(c)].groups[g].allowed_keywords
                       = child.groups[g].allowed_keywords
             /\ OutsideGroups(child, c.val) # {} =>
                   /\ ret'.raised
                   /\ ret'.exc.type = "OptionError"
                   /\ ret'.exc.group_name \in {Some(g) : g \in OutsideGroups(child, c.val)}
                   /\ ret'.exc.path = Some(OptionTree_path(c.self))
                   /\ tree' = tree]_vars

\* C18 witness: the child A, whose plot allow-list is [x, y], was assigned
\* an Options with the allow-list [z] and the keyword z; the assignment
\* failed and the allow-list is as it was.
C18_Witness ==
    /\ call.op = "setattr"
    /\ call.self = <<>>
    /\ call.identifier = A
    /\ call.val = DictVal("plot" :> Opts(None, Some(<<"z">>), "z" :> V1))
    /\ ret.raised
    /\ ret.exc.type = "OptionError"
    /\ ret.exc.invalid_keyword = "z"
    /\ ret.exc.group_name = Some("plot")
    /\ tree[<<A>>].groups["plot"].allowed_keywords = Some(<<"x", "y">>)

\* C18 witness of an assignment carried out: the Options assigned carries
\* the allow-list [x], and the child keeps [x, y].
C18_KeptReached ==
    /\ call.op = "setattr"
    /\ call.self = <<>>
    /\ call.identifier = A
    /\ call.val = DictVal("plot" :> Opts(None, Some(<<"x">>), "x" :> V2))
    /\ ~ret.raised
    /\ tree[<<A>>].groups["plot"].allowed_keywords = Some(<<"x", "y">>)
    /\ tree[<<A>>].groups["plot"].kwargs = ("x" :> V2)

\* The groups of a node for which an assigned value carries an allow-list.
ListedGroups(node, val) ==
    {g \in DOMAIN node.groups \cap DOMAIN GroupItems(val) :
        ~IsNone(GroupItems(val)[g].allowed_keywords)}

\* The groups for which the keywords of the node overlaid by the keywords
\* assigned have a keyword outside the allow-list lists[g].
RejectedGroups(node, val, lists) ==
    {g \in DOMAIN node.groups \cap DOMAIN GroupItems(val) :
        /\ ~IsNone(lists[g])
        /\ \E k \in DOMAIN Overlaid(node.groups[g], GroupItems(val)[g].kwargs) :
              k \notin ListSet(lists[g][1])}

\* The step creates a child with an Options that carries an allow-list.
CreatesListed ==
    /\ Assigns
    /\ ~HasChild(tree, call')
    /\ ListedGroups(tree[call'.self], call'.val) # {}

\* C19 (as amended): a child created by assignment on an initialized node
\* has, for every group, the allow-list of the node's own Options for the
\* group, whatever allow-list the Options assigned carries; the node's
\* keywords overlaid by the keywords supplied are validated against it, and
\* a keyword outside it fails the assignment with an OptionError.
C19_NewChildTakesAllowListOfNode ==
    [][CreatesListed =>
          LET c == call'
              node == tree[c.self]
              own == [g \in DOMAIN node.groups |-> node.groups[g].allowed_keywords]
          IN IF RejectedGroups(node, c.val, own) # {}
             THEN /\ ret'.raised
                  /\ ret'.exc.type = "OptionError"
                  /\ ret'.exc.group_name
                        \in {Some(g) : g \in RejectedGroups(node, c.val, own)}
                  /\ tree' = tree
             ELSE /\ ~ret'.raised
                  /\ \A g \in DOMAIN node.groups :
                        tree'[ChildOf(c)].groups[g].allowed_keywords = own[g]]_vars

\* C19 (original): the child created has, for the group, the allow-list of
\* the Options assigned, and the keywords are validated against that one.
C19_NewChildTakesAllowListAssigned ==
    [][CreatesListed =>
          LET c == call'
              node == tree[c.self]
              carried == [g \in DOMAIN GroupItems(c.val) |->
                             GroupItems(c.val)[g].allowed_keywords]
          IN IF RejectedGroups(node, c.val, carried) # {}
             THEN ret'.raised
             ELSE /\ ~ret'.raised
                  /\ \A g \in ListedGroups(node, c.val) :
                        tree'[ChildOf(c)].groups[g].allowed_keywords = carried[g]]_vars

\* C19 witness: B was created below A, whose plot allow-list is [x, y], with
\* an Options that carries the allow-list [z] and the keyword z; the
\* assignment failed on z.
C19_Witness ==
    /\ call.op = "setattr"
    /\ call.self = <<A>>
    /\ call.identifier = B
    /\ call.val = DictVal("plot" :> Opts(None, Some(<<"z">>), "z" :> V1))
    /\ tree[<<A>>].groups["plot"].allowed_keywords = Some(<<"x", "y">>)
    /\ tree[<<A>>].children = <<>>
    /\ ret.raised
    /\ ret.exc.invalid_keyword = "z"
    /\ ret.exc.allowed_keywords = Some(<<"x", "y">>)

\* C19 witness of a child created: A was created on a root without
\* allow-lists with an Options that carries the allow-list [z]; the child
\* has no allow-list.
C19_CreatedReached ==
    /\ call.op = "setattr"
    /\ call.self = <<>>
    /\ call.identifier = A
    /\ call.val = DictVal("plot" :> Opts(None, Some(<<"z">>), "z" :> V1))
    /\ assigned = 1
    /\ ~ret.raised
    /\ tree[<<A>>].groups["plot"].kwargs = ("z" :> V1)
    /\ IsNone(tree[<<A>>].groups["plot"].allowed_keywords)

(***************************************************************************)
(* Specification of an OptionTree that grows by assignment and by          *)
(* attribute access.                                                       *)
(***************************************************************************)
\* Values that name one group of the tree, a group the tree does not have,
\* or both.
GroupVals ==
    {DictVal("plot" :> Opts(None, None, "x" :> V1)),
     DictVal("other" :> Opts(None, None, "x" :> V1)),
     DictVal("other" :> Opts(None, None, "y" :> V2) @@ "style" :> Opts(None, None, "z" :> V1)),
     OptionsVal(Opts(Some("other"), None, "x" :> V2))}

\* node.identifier = val
AssignGroups ==
    /\ assigned < MaxAssign
    /\ \E self \in DOMAIN tree, identifier \in {A, B}, val \in GroupVals :
        LET set == OptionTree_setattr(tree, self, TRUE, identifier, val)
        IN /\ call' = [op |-> "setattr", self |-> self,
                       identifier |-> identifier, val |-> val]
           /\ ret' = IF set.raised THEN set ELSE Return(None)
           /\ tree' = IF set.raised THEN tree ELSE set.value
    /\ assigned' = assigned + 1
    /\ UNCHANGED <<compositorVars, storeVars>>

\* node.identifier, which creates the child when the node has none of that
\* name
Access ==
    /\ assigned < MaxAssign
    /\ \E self \in DOMAIN tree, identifier \in {A, B} :
        LET got == OptionTree_getattr(tree, self, identifier)
        IN /\ call' = [op |-> "getattr", self |-> self, identifier |-> identifier]
           /\ ret' = IF got.raised THEN got ELSE Return(got.value.node)
           /\ tree' = IF got.raised THEN tree ELSE got.value.tree
    /\ assigned' = assigned + 1
    /\ UNCHANGED <<compositorVars, storeVars>>

NextGroups == AssignGroups \/ Access \/ Resolve

SpecGroups == InitTree /\ [][NextGroups]_vars

(***************************************************************************)
(* Claims about the groups of the nodes.                                   *)
(***************************************************************************)
IsOptions(o) == DOMAIN o = {"key", "allowed_keywords", "kwargs"}

\* C20: whatever children were assigned or created by attribute access,
\* every node of the tree has the group names of the root, with an Options
\* for each of them, and options(g) returns an Options, never None, for
\* every group g of the root at every node.
C20_EveryNodeHasTheGroupsOfTheRoot ==
    /\ \A n \in DOMAIN tree :
          /\ DOMAIN tree[n].groups = DOMAIN tree[<<>>].groups
          /\ \A g \in DOMAIN tree[n].groups : IsOptions(tree[n].groups[g])
    /\ (call.op = "options" /\ call.group \in DOMAIN tree[<<>>].groups) =>
          /\ ~ret.raised
          /\ ~IsNone(ret.value)
          /\ IsOptions(ret.value[1])

\* C20 witness: B was created by attribute access below A, which an
\* assignment had created before with a keyword for plot.
C20_Witness ==
    /\ call.op = "getattr"
    /\ call.self = <<A>>
    /\ call.identifier = B
    /\ ret = Return(<<A, B>>)
    /\ tree[<<A>>].groups["plot"].kwargs = ("x" :> V1)
    /\ DOMAIN tree[<<A, B>>].groups = GroupNames

\* C20 witness of a resolution: norm was resolved at A.B.
C20_ResolvedReached ==
    /\ call.op = "options"
    /\ call.node = <<A, B>>
    /\ call.group = "norm"
    /\ ~ret.raised
    /\ ~IsNone(ret.value)

\* C20 witness of an assignment that names no group of the tree: the child
\* was created with the groups of the node.
C20_UnknownGroupReached ==
    /\ call.op = "setattr"
    /\ call.self = <<>>
    /\ call.identifier = B
    /\ call.val = DictVal("other" :> Opts(None, None, "x" :> V1))
    /\ ~ret.raised
    /\ tree[<<B>>].groups = tree[<<>>].groups

\* The groups an assigned value names that the node assigned on does not have.
UnknownGroups(t, c) == DOMAIN GroupItems(c.val) \ DOMAIN t[c.self].groups

\* The assigned value without the groups the tree does not have.
KnownItems(t, c) ==
    DictVal([g \in DOMAIN GroupItems(c.val) \cap DOMAIN t[c.self].groups |->
                GroupItems(c.val)[g]])

\* C21: an assignment whose value names a group that the tree does not have
\* fails with the 'group not defined' error (a KeyError) and creates or
\* changes no node.
C21_UnknownGroupIsRejected ==
    [][(Assigns /\ UnknownGroups(tree, call') # {}) =>
          /\ ret'.raised
          /\ ret'.exc.type = "KeyError"
          /\ tree' = tree]_vars

\* C21, what the assignment does instead: the names the tree does not have
\* are passed over, and the tree is the one that the assignment of the other
\* groups alone gives.
C21_UnknownGroupIsPassedOver ==
    [][(Assigns /\ UnknownGroups(tree, call') # {}) =>
          LET set == OptionTree_setattr(tree, call'.self, TRUE, call'.identifier,
                                        KnownItems(tree, call'))
          IN /\ ~set.raised
             /\ ~ret'.raised
             /\ tree' = set.value]_vars

(***************************************************************************)
(* Store.load, loads, dump and dumps.  Each sets a flag of the Store,      *)
(* calls the pickle module and clears the flag.  The call into pickle is   *)
(* a step of its own: it returns a value or it raises, and what it raises  *)
(* leaves the method at once, since no handler surrounds the call.         *)
(***************************************************************************)
Dumping == {"dump", "dumps"}
Loading == {"load", "loads"}
PickleError == [type |-> "PickleError"]

\* A call of load, loads, dump or dumps that has not yet left the method.
InProgress == "running" \in DOMAIN call /\ call.running

Max(S) == CHOOSE n \in S : \A m \in S : m <= n

\* max(cls.custom_options) if cls.custom_options else 0
Store_counter_offset(custom) ==
    IF DOMAIN custom # {} THEN Max(DOMAIN custom) ELSE 0

\* Store.custom_options[id] = tree, between calls
PutCustom ==
    /\ ~InProgress
    /\ \E id \in Ids, t \in CustomTrees :
        /\ call' = [op |-> "set_custom"]
        /\ ret' = Return(None)
        /\ custom_options' =
               [i \in DOMAIN custom_options \cup {id} |->
                   IF i = id THEN t ELSE custom_options[i]]
    /\ UNCHANGED <<treeVars, compositorVars, Store_defaults, Store_options, flagVars>>

\* The first statement of load and of loads, up to the call of pickle.
BeginLoading(op) ==
    /\ ~InProgress
    /\ call' = [op |-> op, running |-> TRUE,
                offset |-> Store_counter_offset(custom_options)]
    /\ ret' = NoRet
    /\ load_counter_offset' = Some(Store_counter_offset(custom_options))
    /\ UNCHANGED <<treeVars, compositorVars, Store_defaults, Store_options, custom_options,
                   save_option_state>>

\* The first statement of dump and of dumps, up to the call of pickle.
BeginDumping(op) ==
    /\ ~InProgress
    /\ call' = [op |-> op, running |-> TRUE]
    /\ ret' = NoRet
    /\ save_option_state' = TRUE
    /\ UNCHANGED <<treeVars, compositorVars, Store_defaults, Store_options, custom_options,
                   load_counter_offset>>

Store_load == BeginLoading("load")
Store_loads == BeginLoading("loads")
Store_dump == BeginDumping("dump")
Store_dumps == BeginDumping("dumps")

\* pickle returns: the statements after the call clear the flag, and the
\* method returns (dump returns nothing).
PickleReturns ==
    /\ InProgress
    /\ call' = [call EXCEPT !.running = FALSE]
    /\ ret' = Return(IF call.op = "dump" THEN None ELSE Some("val"))
    /\ IF call.op \in Dumping
          THEN save_option_state' = FALSE /\ UNCHANGED load_counter_offset
          ELSE load_counter_offset' = None /\ UNCHANGED save_option_state
    /\ UNCHANGED <<treeVars, compositorVars, Store_defaults, Store_options, custom_options>>

\* pickle raises: the exception leaves the method, and the statements after
\* the call are not executed.
PickleRaises ==
    /\ InProgress
    /\ call' = [call EXCEPT !.running = FALSE]
    /\ ret' = Raise(PickleError)
    /\ UNCHANGED <<treeVars, compositorVars, storeVars>>

NextPickle ==
    \/ PutCustom
    \/ Store_load
    \/ Store_loads
    \/ Store_dump
    \/ Store_dumps
    \/ PickleReturns
    \/ PickleRaises

SpecPickle == InitStore /\ [][NextPickle]_vars

\* C22: save_option_state is True only while a dump or dumps is in
\* progress; load_counter_offset is not None only while a load or loads is
\* in progress, and is then the largest key custom_options had when the
\* call was made (0 if it had none); whenever no call is in progress, also
\* after a call in which pickle raised, save_option_state is False and
\* load_counter_offset is None.
C22_FlagsSetOnlyDuringCalls ==
    /\ save_option_state => InProgress /\ call.op \in Dumping
    /\ load_counter_offset # None =>
          /\ InProgress /\ call.op \in Loading
          /\ load_counter_offset = Some(call.offset)
    /\ ~InProgress => NoPickling

\* What holds of the flags: a call sets its flag to the value the claim
\* gives on entry, and clears it when pickle has returned; the flag of a
\* call in which pickle raised stays as the call set it.
C22_FlagsClearedOnReturnOnly ==
    [][/\ Store_dump \/ Store_dumps => save_option_state'
       /\ Store_load \/ Store_loads =>
             load_counter_offset' = Some(Store_counter_offset(custom_options))
       /\ PickleReturns /\ call.op \in Dumping => ~save_option_state'
       /\ PickleReturns /\ call.op \in Loading => load_counter_offset' = None
       /\ PickleRaises => UNCHANGED flagVars]_vars

\* pickle returned, and both flags are clear.
C22_ReturnedReached ==
    /\ call.op \in Dumping \cup Loading /\ ~InProgress /\ ~ret.raised
    /\ NoPickling

\* pickle raised in a load made with custom options stored, and the call
\* is over.
C22_RaisedReached ==
    /\ call.op \in Loading /\ ~InProgress /\ ret.raised
    /\ load_counter_offset = Some(3)

(***************************************************************************)
(* Cycle and Palette.  A Cycle object is the record of its class, its key  *)
(* and its values; a Palette also holds its samples and reverse            *)
(* parameters (its range and its sample_fn stay the defaults).             *)
(***************************************************************************)
ValueError == [type |-> "ValueError"]

\* Cycle.default_cycles, as a backend fills it, and Palette.colormaps
default_cycles == "colors" :> <<1, 2>>
colormaps == {"grayscale"}

\* Cycle._get_values
Cycle_get_values(key, values) ==
    IF values # <<>> THEN Return(values)
    ELSE IF key # ""
    THEN IF key \in DOMAIN default_cycles THEN Return(default_cycles[key])
         ELSE Raise(KeyError(key))
    ELSE Raise(ValueError)

\* Cycle(key=key, values=values)
Cycle_init(key, values) ==
    LET got == Cycle_get_values(key, values)
    IN IF got.raised THEN got
       ELSE Return([isCycle |-> TRUE, class |-> "Cycle", key |-> key,
                    values |-> got.value])

\* The j-th of the samples np.linspace(0, 1, steps) as the colormap renders
\* it: the fraction (j-1)/(steps-1), and 0 for a single sample.
Sample(j, steps) == [num |-> j - 1, den |-> IF steps = 1 THEN 1 ELSE steps - 1]

\* Palette._get_values
Palette_get_values(key, steps, reverse) ==
    IF key \notin colormaps THEN Raise(KeyError(key))
    ELSE LET samples == [j \in 1..steps |-> Sample(j, steps)]
         IN Return(IF reverse THEN [j \in 1..steps |-> samples[steps + 1 - j]]
                   ELSE samples)

\* Palette(key, samples=samples, reverse=reverse)
Palette_init(key, samples, reverse) ==
    LET got == Palette_get_values(key, samples, reverse)
    IN IF got.raised THEN got
       ELSE Return([isCycle |-> TRUE, class |-> "Palette", key |-> key,
                    values |-> got.value, samples |-> samples,
                    reverse |-> reverse])

\* list[:num]
SliceTo(list, num) ==
    LET stop == IF num >= 0 THEN Min({num, Len(list)})
                ELSE IF Len(list) + num > 0 THEN Len(list) + num ELSE 0
    IN SubSeq(list, 1, stop)

\* Cycle.__call__ passing on the values it is given, empty or not.
Cycle_call_AsPassed(self, values, samples) ==
    Return([self EXCEPT !.values = values])

\* Cycle.__call__(values, samples=samples): an object of the same class made
\* of the parameters of self, with the values given unless they are falsy;
\* samples is None when it is not passed.  A Palette computes its values
\* again when it is constructed.
Cycle_call(self, values, samples) ==
    LET passed == IF values # <<>> THEN values ELSE self.values
    IN IF self.class = "Cycle" THEN Cycle_init(self.key, passed)
       ELSE Palette_init(self.key,
                         IF IsNone(samples) THEN self.samples ELSE samples[1],
                         self.reverse)

\* Cycle.__getitem__
Cycle_getitem(self, num) == Cycle_call(self, SliceTo(self.values, num), None)

\* Palette.__getitem__ for an index that is not a slice
Palette_getitem(self, slc) == Cycle_call(self, <<>>, Some(slc))

(***************************************************************************)
(* Specification of the construction of Cycles and Palettes, of their      *)
(* indexing, and of the Options made of them.                              *)
(***************************************************************************)
CycleKeyNames == {"", "grayscale", "colors"}
IsCycleObject == call.op \in {"Cycle", "Palette", "cycle_getitem", "palette_getitem"}
                 /\ ~ret.raised

\* Cycle(key=key, values=values)
ConstructCycle ==
    /\ call = NoCall
    /\ \E key \in CycleKeyNames, values \in SeqUpTo(CycleValues, MaxCycle) :
        /\ call' = [op |-> "Cycle", key |-> key, values |-> values]
        /\ ret' = Cycle_init(key, values)
    /\ UNCHANGED <<treeVars, compositorVars, storeVars>>

\* Palette(key, samples=samples, reverse=reverse)
ConstructPalette ==
    /\ call = NoCall
    /\ \E key \in CycleKeyNames, samples \in 0..MaxCycle, reverse \in BOOLEAN :
        /\ call' = [op |-> "Palette", key |-> key, samples |-> samples,
                    reverse |-> reverse]
        /\ ret' = Palette_init(key, samples, reverse)
    /\ UNCHANGED <<treeVars, compositorVars, storeVars>>

\* c[num], for the Cycle c constructed last
CycleGetItem ==
    /\ call.op = "Cycle" /\ ~ret.raised
    /\ \E num \in Indices :
        /\ call' = [op |-> "cycle_getitem", self |-> ret.value, num |-> num]
        /\ ret' = Cycle_getitem(ret.value, num)
    /\ UNCHANGED <<treeVars, compositorVars, storeVars>>

\* p[slc], for the Palette p constructed last
PaletteGetItem ==
    /\ call.op = "Palette" /\ ~ret.raised
    /\ \E slc \in 0..MaxCycle :
        /\ call' = [op |-> "palette_getitem", self |-> ret.value, slc |-> slc]
        /\ ret' = Palette_getitem(ret.value, slc)
    /\ UNCHANGED <<treeVars, compositorVars, storeVars>>

\* Options(x=c, y=v), for the Cycle or Palette c obtained last
ConstructOptionsOf ==
    /\ IsCycleObject
    /\ \E static \in {EmptyDict, "y" :> V1} :
        LET kwargs == DictMerge("x" :> ret.value, static)
        IN /\ call' = [op |-> "Options", key |-> None, allowed_keywords |-> None,
                       kwargs |-> kwargs]
           /\ ret' = Options_init(None, None, kwargs)
    /\ UNCHANGED <<treeVars, compositorVars, storeVars>>

NextCycle ==
    \/ ConstructCycle
    \/ ConstructPalette
    \/ CycleGetItem
    \/ PaletteGetItem
    \/ ConstructOptionsOf
    \/ GetItem

SpecCycle == InitOptions /\ [][NextCycle]_vars

\* C23: every Cycle that is constructed has at least one value and every
\* Options has at least one concrete keyword dict, so that o[i] never
\* divides by zero; a Cycle or a Palette whose values come out empty fails
\* at construction.
C23_CyclesAndOptionsAreNeverEmpty ==
    /\ IsCycleObject => Len(ret.value.values) >= 1
    /\ Constructed => Len(Options_expand_options(ret.value.kwargs)) >= 1
    /\ call.op = "getitem" => ~ret.raised

\* What holds: the objects of class Cycle have at least one value, and so
\* have the Options made of them; a Palette has as many values as samples,
\* none included.
C23_OnlyCyclesAreNeverEmpty ==
    /\ IsCycleObject /\ ret.value.class = "Cycle" => Len(ret.value.values) >= 1
    /\ IsCycleObject /\ ret.value.class = "Palette" =>
          Len(ret.value.values) = ret.value.samples
    /\ Constructed =>
          Len(Options_expand_options(ret.value.kwargs)) =
              Len(ret.value.kwargs["x"].values)
    /\ call.op = "getitem" =>
          (ret.raised <=> Len(call.self.kwargs["x"].values) = 0)

\* A Cycle without values and without a key, or with a key that is not
\* registered, is not constructed.
C23_CycleRejectedReached ==
    /\ call.op = "Cycle" /\ call.values = <<>> /\ call.key = ""
    /\ ret.raised /\ ret.exc = ValueError

\* A Palette of no samples is constructed, and indexing the Options made of
\* it divides by zero.
C23_EmptyPaletteReached ==
    /\ call.op = "getitem" /\ call.self.kwargs["x"].class = "Palette"
    /\ ret.raised /\ ret.exc.type = "ZeroDivisionError"

\* The first num values of a list, all of them when it has fewer.
FirstValues(list, num) == SubSeq(list, 1, Min({num, Len(list)}))

IndexedCycle == call.op = "cycle_getitem" /\ call.num >= 0

\* C24: for every Cycle c and every n >= 1, c[n] is a new Cycle of the same
\* key whose values are the first n values of c, all of them when n exceeds
\* their number; c[0] is a new Cycle with all the values of c.
C24_IndexingTruncatesExceptAtZero ==
    IndexedCycle =>
        /\ ~ret.raised
        /\ ret.value.class = "Cycle" /\ ret.value.key = call.self.key
        /\ ret.value.values =
              IF call.num = 0 THEN call.self.values
              ELSE FirstValues(call.self.values, call.num)

\* C24 as stated: for every Cycle c and every n >= 0, c[n] is a new Cycle
\* whose values are exactly the first n values of c.
C24_IndexingTruncates ==
    IndexedCycle =>
        /\ ~ret.raised
        /\ ret.value.values = FirstValues(call.self.values, call.num)

\* c[0] for a Cycle of several values, and a c[n] that drops values.
C24_Witness ==
    /\ IndexedCycle /\ call.num = 0
    /\ Len(call.self.values) = MaxCycle /\ ret.value.values = call.self.values

C24_TruncatedReached ==
    /\ IndexedCycle /\ call.num = 1
    /\ Len(call.self.values) = MaxCycle /\ Len(ret.value.values) = 1

\* The keywords of a mapping whose values are Cycles, and whether these
\* Cycles all have n values.
CyclicKeys(kwargs) == {k \in DOMAIN kwargs : kwargs[k].isCycle}
CommonLength(kwargs, n) == \A k \in CyclicKeys(kwargs) : Len(kwargs[k].values) = n

\* The j-th concrete mapping of the claim: the j-th value of every Cycle,
\* and the value of every static keyword.
Concrete(kwargs, j) ==
    [k \in DOMAIN kwargs |->
        IF kwargs[k].isCycle THEN kwargs[k].values[j] ELSE kwargs[k].values[1]]

Overlay == <<"Overlay">>
ViewClass(name, composite) == [name |-> name, composite |-> composite]
PlotClass(params, style_opts) == [params |-> params, style_opts |-> style_opts]
AttributeError == [type |-> "AttributeError"]

\* isinstance(view_class, CompositeOverlay): view_class is a class, and a
\* class is not an instance of CompositeOverlay, whatever its bases.
IsInstanceOfCompositeOverlay(view_class) == FALSE

\* [k for k in plot.params().keys() if k not in ['name']]
PlotOpts(plot) == SelectSeq(plot.params, LAMBDA k : k # "name")

\* Options(framewise=False, axiswise=False,
\*         allowed_keywords=['framewise', 'axiswise']); False is 0
NormOptions ==
    Opts(None, Some(<<"framewise", "axiswise">>),
         [k \in {"framewise", "axiswise"} |-> Val(0)])

\* The body of the loop of register_plots: the groups of one element class.
OptGroups(view_class, plot) ==
    LET plot_group == "plot" :> Opts(None, Some(PlotOpts(plot)), EmptyDict)
    IN IF ~IsInstanceOfCompositeOverlay(view_class) \/ ~IsNone(plot.style_opts)
       THEN DictMerge(plot_group,
                [g \in {"style", "norm"} |->
                    IF g = "style"
                    THEN Opts(None, Some(plot.style_opts[1]), EmptyDict)
                    ELSE NormOptions])
       ELSE plot_group

\* The names of the element classes in the order of sorted().
TypeOrder == <<Image, Overlay>>

\* sorted(path_items.items())
PathItems(defaults) ==
    LET names == SelectSeq(TypeOrder, LAMBDA name : name \in DOMAIN defaults)
    IN [i \in 1..Len(names) |->
           <<names[i],
             DictVal(OptGroups(defaults[names[i]].view_class,
                               defaults[names[i]].plot))>>]

\* Store.register_plots: the tree it assigns to Store.options, or the
\* AttributeError of plot.style_opts for a plot class without the
\* attribute.
Store_register_plots(defaults) ==
    IF \E name \in DOMAIN defaults : IsNone(defaults[name].plot.style_opts)
    THEN Raise(AttributeError)
    ELSE OptionTree_init(PathItems(defaults), RootGroups)

(***************************************************************************)
(* Specification of register_plots: element classes are registered in      *)
(* Store.defaults, children are assigned on the global tree, and           *)
(* register_plots is called, in any order.                                 *)
(***************************************************************************)
ViewClasses == {ViewClass(Image, FALSE), ViewClass(Overlay, TRUE)}
PlotClasses ==
    {PlotClass(<<"name", "x">>, Some(<<"z">>)),
     PlotClass(<<"y", "name", "x">>, Some(<<>>)),
     PlotClass(<<"name">>, None)}
Custom == <<"Custom">>

InitPlots ==
    /\ Idle /\ NoTree /\ NoCompositors /\ NoPickling /\ NoDefaults
    /\ Store_options = BareTree
    /\ custom_options \in {EmptyDict, 1 :> TreeWith(V2, V1)}

\* Store.defaults[view_class] = plot
SetDefault ==
    /\ \E view_class \in ViewClasses, plot \in PlotClasses :
        /\ call' = [op |-> "set_default", view_class |-> view_class, plot |-> plot]
        /\ ret' = Return(None)
        /\ Store_defaults' =
               DictMerge(Store_defaults,
                         view_class.name :> [view_class |-> view_class, plot |-> plot])
    /\ UNCHANGED <<treeVars, compositorVars, Store_options, custom_options, flagVars>>

\* Store.options.Image = {'plot': Options(x=1)} and
\* Store.options.Custom = {'style': Options(z=1)}
AssignOnStore ==
    /\ assigned < MaxAssign
    /\ \E c \in {[identifier |-> Image, group |-> "plot", keyword |-> "x"],
                 [identifier |-> Custom, group |-> "style", keyword |-> "z"]} :
        LET set == OptionTree_setattr(Store_options, <<>>, TRUE, c.identifier,
                       DictVal(c.group :> Opts(None, None, c.keyword :> V1)))
        IN /\ call' = [op |-> "setattr", self |-> <<>>, identifier |-> c.identifier]
           /\ ret' = IF set.raised THEN set ELSE Return(None)
           /\ Store_options' = IF set.raised THEN Store_options ELSE set.value
    /\ assigned' = assigned + 1
    /\ UNCHANGED <<tree, compositorVars, Store_defaults, custom_options, flagVars>>

\* Store.register_plots() putting the items on the global tree as it is.
RegisterPlots_OntoTree ==
    /\ LET registered ==
               IF Store_register_plots(Store_defaults).raised
               THEN Store_register_plots(Store_defaults)
               ELSE AssignItems(Store_options, PathItems(Store_defaults))
       IN /\ call' = [op |-> "register_plots", defaults |-> Store_defaults,
                      previous |-> Store_options]
          /\ ret' = IF registered.raised THEN registered ELSE Return(None)
          /\ Store_options' =
                 IF registered.raised THEN Store_options ELSE registered.value
    /\ UNCHANGED <<treeVars, compositorVars, Store_defaults, custom_options, flagVars>>

\* Store.register_plots(); the call is recorded with the defaults it read and
\* the global tree it found.
RegisterPlots ==
    /\ LET registered == Store_register_plots(Store_defaults)
       IN /\ call' = [op |-> "register_plots", defaults |-> Store_defaults,
                      previous |-> Store_options]
          /\ ret' = IF registered.raised THEN registered ELSE Return(None)
          /\ Store_options' =
                 IF registered.raised THEN Store_options ELSE registered.value
    /\ UNCHANGED <<treeVars, compositorVars, Store_defaults, custom_options, flagVars>>

NextPlots == SetDefault \/ AssignOnStore \/ RegisterPlots

SpecPlots == InitPlots /\ [][NextPlots]_vars

\* The Options of a group of the child of the global tree named name.
GlobalGroup(name, group) == Store_options[<<name>>].groups[group]

\* The allow-list an Options keeps of the list it is given: sorted, and None
\* for an empty list.
Kept(list) == IF list = <<>> THEN None ELSE Some(SortedList(list))

PlotsRegistered == call.op = "register_plots" /\ ~ret.raised

\* The element class is a composite whose plot class declares no style
\* keywords.
PlainComposite(d) ==
    d.view_class.composite /\ (IsNone(d.plot.style_opts) \/ d.plot.style_opts[1] = <<>>)

\* The 'plot' group every registered class is given.
PlotConfigured(name, d) ==
    /\ <<name>> \in DOMAIN Store_options
    /\ GlobalGroup(name, "plot").allowed_keywords = Kept(PlotOpts(d.plot))

\* The 'style' and 'norm' groups made of the plot class.
StyleConfigured(name, d) ==
    /\ GlobalGroup(name, "style").allowed_keywords = Kept(d.plot.style_opts[1])
    /\ GlobalGroup(name, "norm").kwargs = NormOptions.kwargs
    /\ GlobalGroup(name, "norm").allowed_keywords = NormOptions.allowed_keywords

\* C26: after register_plots the global tree has one child for every
\* element class registered, whose 'plot' group allows the parameter names
\* of the plot class other than 'name'; a composite class whose plot class
\* declares no style keywords has only 'plot' configured, its 'style' and
\* 'norm' being the empty Options of the root; every other class also has
\* 'style' allowing the style_opts of the plot class and 'norm' with
\* framewise=False and axiswise=False.
C26_CompositesGetPlotOnly ==
    PlotsRegistered =>
        /\ Store_options[<<>>].children =
               SelectSeq(TypeOrder, LAMBDA name : name \in DOMAIN call.defaults)
        /\ \A name \in DOMAIN call.defaults :
              LET d == call.defaults[name]
              IN /\ PlotConfigured(name, d)
                 /\ IF PlainComposite(d)
                    THEN /\ GlobalGroup(name, "style") = EmptyOptions
                         /\ GlobalGroup(name, "norm") = EmptyOptions
                    ELSE StyleConfigured(name, d)

\* What holds: register_plots fails, and leaves the global tree as it was,
\* when a plot class has no style_opts attribute; otherwise every class
\* registered, composite or not, has its 'plot', 'style' and 'norm' groups
\* made of its plot class.
C26_EveryClassGetsEveryGroup ==
    call.op = "register_plots" =>
        /\ ret.raised <=>
              \E name \in DOMAIN call.defaults :
                  IsNone(call.defaults[name].plot.style_opts)
        /\ ~ret.raised =>
              /\ Store_options[<<>>].children =
                     SelectSeq(TypeOrder, LAMBDA name : name \in DOMAIN call.defaults)
              /\ \A name \in DOMAIN call.defaults :
                    /\ PlotConfigured(name, call.defaults[name])
                    /\ StyleConfigured(name, call.defaults[name])

\* An overlay class whose plot class has an empty style_opts is registered
\* next to an element class, and its 'norm' group holds the two keywords.
C26_CompositeReached ==
    /\ PlotsRegistered
    /\ DOMAIN call.defaults = {Image, Overlay}
    /\ PlainComposite(call.defaults[Overlay])
    /\ DOMAIN GlobalGroup(Overlay, "norm").kwargs = {"framewise", "axiswise"}

\* register_plots fails on a plot class without style_opts.
C26_FailedReached ==
    /\ call.op = "register_plots" /\ ret.raised /\ ret.exc = AttributeError

\* The step is a call of register_plots that returned.
RegistersPlots == call'.op = "register_plots" /\ ~ret'.raised /\ call' # call

\* The keywords the groups of a node hold.
NodeKeywords(t, node) == UNION {DOMAIN t[node].groups[g].kwargs : g \in DOMAIN t[node].groups}

\* C30: register_plots replaces the global tree by one built of
\* Store.defaults alone: a call made right after a call that read the same
\* defaults leaves an equal tree, no node and no keyword assigned on the
\* global tree before the call is there after it (the nodes are the root
\* and one child for every class registered, holding only the keywords of
\* 'norm'), and Store.custom_options is unchanged.
C30_RegisteringRebuildsTheTree ==
    [][RegistersPlots =>
        /\ custom_options' = custom_options
        /\ DOMAIN Store_options' = {<<>>} \cup {<<name>> : name \in DOMAIN Store_defaults}
        /\ NodeKeywords(Store_options', <<>>) = {}
        /\ \A name \in DOMAIN Store_defaults :
              NodeKeywords(Store_options', <<name>>) = {"framewise", "axiswise"}
        /\ (call.op = "register_plots" /\ ~ret.raised
            /\ call.defaults = Store_defaults) => Store_options' = Store_options
      ]_vars

\* register_plots has replaced a tree that held the node Custom and the
\* keyword x of Image, with custom options stored.
C30_Witness ==
    /\ PlotsRegistered
    /\ <<Custom>> \in DOMAIN call.previous
    /\ <<Image>> \in DOMAIN call.previous
    /\ "x" \in NodeKeywords(call.previous, <<Image>>)
    /\ Image \in DOMAIN call.defaults
    /\ custom_options # EmptyDict

\* register_plots is called twice in a row.
C30_TwiceReached ==
    /\ PlotsRegistered
    /\ call.previous = Store_options /\ DOMAIN call.defaults = {Image, Overlay}

(***************************************************************************)
(* Specification of the construction of Compositors from patterns.  A      *)
(* pattern is written out of the tuples of components it is to stand for,  *)
(* tightly or with spaces around every component, and is handed to         *)
(* Compositor(...), whose result is registered.  One Compositor of another *)
(* group is registered beforehand.                                         *)
(***************************************************************************)
MaxSegments == 3    \* most '*'-separated segments of a pattern

Segments ==
    {<<"Image">>, <<"Image", "R">>, <<"Image", "R", "a">>, <<"Image", "G", "a">>,
     <<"Image", "G", "b">>, <<"Image", "R", "a", "b">>}
SegmentLists == SeqUpTo(Segments, MaxSegments) \ {<<>>}

\* sep.join(parts), for parts that are lists of tokens
RECURSIVE Join(_, _)
Join(parts, sep) ==
    IF Len(parts) = 1 THEN parts[1]
    ELSE parts[1] \o sep \o Join(Tail(parts), sep)

\* The pattern string of a list of component tuples.
Written(tuples, spaced) ==
    LET pad == IF spaced THEN <<" ">> ELSE <<>>
        component(c) == pad \o <<c>> \o pad
        path(t) == Join([i \in 1..Len(t) |-> component(t[i])], <<".">>)
    IN Join([i \in 1..Len(tuples) |-> path(tuples[i])], <<"*">>)

Preregistered == Compositor_init(PatternImage, "op2", Gray, "data", EmptyDict).value

InitConstruct ==
    /\ Idle /\ NoTree /\ NoCustomOptions
    /\ definitions = <<Preregistered>>
    /\ operations = <<"op2">>

\* Compositor.register(Compositor(pattern, 'op1', 'RGB', 'data'))
Construct ==
    /\ call = NoCall
    /\ \E tuples \in SegmentLists, spaced \in BOOLEAN :
        /\ call' = [op |-> "construct", tuples |-> tuples,
                    pattern |-> Written(tuples, spaced)]
        /\ Registered(<<Written(tuples, spaced), "op1", RGB, "data">>)

NextConstruct == Construct

SpecConstruct == InitConstruct /\ [][NextConstruct]_vars

\* The labels of the three-part segments, and whether two of them differ.
LabelsOf(tuples) ==
    LET labelled == SelectSeq(tuples, LAMBDA t : Len(t) = 3)
    IN [i \in 1..Len(labelled) |-> labelled[i][3]]
Mismatched(tuples) ==
    \E i, j \in 1..Len(LabelsOf(tuples)) : LabelsOf(tuples)[i] # LabelsOf(tuples)[j]

\* The pattern_spec of a list of component tuples: every component is the
\* string of its one token.
Parsed(tuples) ==
    [i \in 1..Len(tuples) |-> [j \in 1..Len(tuples[i]) |-> <<tuples[i][j]>>]]

\* C27: the construction of a Compositor fails, with no Compositor made and
\* the registry as it was, exactly when the pattern has two or more
\* three-part segments whose labels are not all equal; every other pattern
\* is taken apart, in order, into one tuple of stripped components for every
\* segment between '*'.
C27_OnlyMismatchedLabelsFail ==
    call.op = "construct" =>
        /\ ret.raised <=> Mismatched(call.tuples)
        /\ ret.raised =>
              /\ ret.exc.type = "KeyError"
              /\ definitions = <<Preregistered>> /\ operations = <<"op2">>
        /\ ~ret.raised =>
              /\ Len(definitions) = 2
              /\ definitions[2].pattern = call.pattern
              /\ definitions[2].pattern_spec = Parsed(call.tuples)

\* A spaced pattern of three segments, two of them with the same label, is
\* constructed.
C27_Witness ==
    /\ call.op = "construct" /\ ~ret.raised
    /\ Len(call.tuples) = MaxSegments /\ Len(LabelsOf(call.tuples)) = 2
    /\ call.tuples[1] # call.tuples[MaxSegments]
    /\ Len(call.pattern) > 3 * Len(call.tuples) + 2

\* A pattern whose third label differs from the first two is rejected.
C27_RejectedReached ==
    /\ call.op = "construct" /\ ret.raised
    /\ Len(LabelsOf(call.tuples)) = 3
    /\ LabelsOf(call.tuples)[1] = LabelsOf(call.tuples)[2]

(***************************************************************************)
(* Specification of match_level for patterns whose segments have one to    *)
(* four components, on overlays of elements with groups and labels.        *)
(***************************************************************************)
LevelSegments ==
    {<<"Image">>, <<"Curve">>, <<"Image", "R">>, <<"Image", "G", "a">>,
     <<"Image", "R", "a">>, <<"Image", "R", "a", "b">>}
LabelledElements ==
    {Element(Image, <<"R">>, <<"a">>), Element(Image, <<"G">>, <<"a">>),
     Element(Image, <<"G">>, <<"b">>), Element(Curve, <<"R">>, <<"a">>)}
LabelledOverlays ==
    {Overlay_from_values(values) : values \in SeqUpTo(LabelledElements, MaxOverlay)}

\* Compositor.register(Compositor(pattern, 'op1', 'RGB', 'data'))
ConstructPattern ==
    /\ call = NoCall
    /\ \E tuples \in SeqUpTo(LevelSegments, MaxParts) \ {<<>>} :
        /\ call' = [op |-> "construct", tuples |-> tuples,
                    pattern |-> Written(tuples, FALSE)]
        /\ Registered(<<Written(tuples, FALSE), "op1", RGB, "data">>)

\* compositor.match_level(overlay), for the Compositor constructed last
MatchLevelOf ==
    /\ call.op = "construct" /\ ~ret.raised
    /\ \E overlay \in LabelledOverlays :
        /\ call' = [op |-> "match_level", self |-> definitions[Len(definitions)],
                    overlay |-> overlay]
        /\ ret' = Return(Compositor_match_level(definitions[Len(definitions)],
                                                overlay))
    /\ UNCHANGED <<treeVars, compositorVars, storeVars>>

NextLevel == ConstructPattern \/ MatchLevelOf

SpecLevel == InitCompositor /\ [][NextLevel]_vars

\* The number of components of a pattern.
RECURSIVE TotalComponents(_)
TotalComponents(pattern_spec) ==
    IF pattern_spec = <<>> THEN 0
    ELSE Len(Head(pattern_spec)) + TotalComponents(Tail(pattern_spec))

\* The element has the type, the group and the label the segment names.
FullyMatches(spec, el) ==
    /\ spec[1] = el.type
    /\ Len(spec) >= 2 => spec[2] = el.group
    /\ Len(spec) >= 3 => spec[3] = el.label

\* The window of the overlay that starts after i elements matches the
\* pattern segment by segment.
WindowMatches(pattern_spec, values, i) ==
    /\ i + Len(pattern_spec) <= Len(values)
    /\ \A k \in 1..Len(pattern_spec) : FullyMatches(pattern_spec[k], values[i + k])

UpToThree(pattern_spec) ==
    \A k \in 1..Len(pattern_spec) : Len(pattern_spec[k]) \in 1..3

\* C28: for a Compositor whose segments have one to three components,
\* match_level returns None when no window of the overlay matches every
\* component of the pattern, and otherwise the number of components of the
\* pattern as the level, whatever the overlay, together with the earliest
\* window that matches: a window is never given part of the score.
C28_LevelIsTheNumberOfComponents ==
    call.op = "match_level" /\ UpToThree(call.self.pattern_spec) =>
        LET pattern_spec == call.self.pattern_spec
            values == call.overlay.values
            matching == {i \in 0..Len(values) : WindowMatches(pattern_spec, values, i)}
        IN /\ IsNone(ret.value) <=> matching = {}
           /\ ~IsNone(ret.value) =>
                 /\ ret.value[1][1] = TotalComponents(pattern_spec)
                 /\ ret.value[1][2] = <<Min(matching), Min(matching) + Len(pattern_spec)>>

\* A pattern of a segment of one and a segment of three components matches
\* the second and the third window of an overlay, and not the first.
C28_Witness ==
    /\ call.op = "match_level" /\ ~IsNone(ret.value)
    /\ Len(call.self.pattern_spec) = 1 /\ Len(call.self.pattern_spec[1]) = 3
    /\ ret.value[1][1] = 3
    /\ ret.value[1][2][1] = 1
    /\ WindowMatches(call.self.pattern_spec, call.overlay.values, 2)

\* A pattern of segments of different lengths matches.
C28_MixedReached ==
    /\ call.op = "match_level" /\ ~IsNone(ret.value)
    /\ Len(call.self.pattern_spec) = 2
    /\ Len(call.self.pattern_spec[1]) = 1 /\ Len(call.self.pattern_spec[2]) = 3
    /\ ret.value[1][1] = 4

(***************************************************************************)
(* Specification of assignments that name several groups, on a tree whose  *)
(* node A has an allow-list for 'plot' and another for 'style'.            *)
(***************************************************************************)
ListedTree ==
    OptionTree_init(
        << <<A, DictVal("plot" :> Opts(None, Some(<<"y", "x">>), EmptyDict)
                        @@ "style" :> Opts(None, Some(<<"z">>), EmptyDict))>> >>,
        RootGroups).value

InitListed ==
    /\ Idle /\ NoCompositors /\ NoCustomOptions
    /\ tree = ListedTree
    /\ assigned = 0

SeveralGroups ==
    {DictVal("plot" :> Opts(None, None, "x" :> V1) @@ "style" :> Opts(None, None, "z" :> V1)),
     DictVal("plot" :> Opts(None, None, "x" :> V1) @@ "style" :> Opts(None, None, "y" :> V1)),
     DictVal("plot" :> Opts(None, None, "z" :> V1) @@ "style" :> Opts(None, None, "z" :> V1)),
     DictVal("plot" :> Opts(None, None, "z" :> V1) @@ "style" :> Opts(None, None, "y" :> V1)),
     DictVal("style" :> Opts(None, None, "y" :> V2) @@ "norm" :> Opts(None, None, "x" :> V2)),
     OptionsVal(Opts(Some("style"), None, "y" :> V2)),
     OptionsVal(Opts(Some("plot"), None, "y" :> V2))}

\* node.identifier = val
AssignSeveral ==
    /\ assigned < MaxAssign
    /\ \E self \in DOMAIN tree, identifier \in {A, B}, val \in SeveralGroups :
        LET set == OptionTree_setattr(tree, self, TRUE, identifier, val)
        IN /\ call' = [op |-> "setattr", self |-> self,
                       identifier |-> identifier, val |-> val]
           /\ ret' = IF set.raised THEN set ELSE Return(None)
           /\ tree' = IF set.raised THEN tree ELSE set.value
    /\ assigned' = assigned + 1
    /\ UNCHANGED <<compositorVars, storeVars>>

NextListed == AssignSeveral

SpecListed == InitListed /\ [][NextListed]_vars

\* The node whose Options an assignment c builds on in tree t: the child
\* when it exists, and the node assigned on when it does not.
BuiltOn(t, c) == IF HasChild(t, c) THEN t[ChildOf(c)] ELSE t[c.self]

\* The groups of an assignment c whose keywords, laid over those of the node
\* it builds on, have a keyword outside the allow-list of that node.
Invalid(t, c) ==
    RejectedGroups(BuiltOn(t, c), c.val,
                   [g \in DOMAIN BuiltOn(t, c).groups |->
                       BuiltOn(t, c).groups[g].allowed_keywords])

\* C29: the assignment of a dict or of a single Options that fails the
\* validation of any of its groups is atomic: the OptionError is raised
\* before a node is created or replaced, and the tree is as it was, also
\* when another group of the same assignment is valid; an assignment all of
\* whose groups are valid is carried out.
C29_FailedAssignmentChangesNothing ==
    [][Assigns =>
          /\ ret'.raised <=> Invalid(tree, call') # {}
          /\ ret'.raised =>
                /\ ret'.exc.type = "OptionError"
                /\ ret'.exc.group_name \in {Some(g) : g \in Invalid(tree, call')}
                /\ tree' = tree
          /\ ~ret'.raised => ChildOf(call') \in DOMAIN tree']_vars

\* The assignment of x to 'plot' and of y to 'style' of the child A failed
\* on 'style', 'plot' being valid, and A has no keyword x.
C29_Witness ==
    /\ call.op = "setattr" /\ call.self = <<>> /\ call.identifier = A
    /\ call.val.kind = "dict" /\ DOMAIN call.val.items = {"plot", "style"}
    /\ "x" \in DOMAIN call.val.items["plot"].kwargs
    /\ ret.raised /\ ret.exc.type = "OptionError"
    /\ ret.exc.group_name = Some("style") /\ ret.exc.invalid_keyword = "y"
    /\ tree = ListedTree
    /\ "x" \notin DOMAIN tree[<<A>>].groups["plot"].kwargs

\* An assignment of two groups was carried out on A.
C29_CarriedOutReached ==
    /\ call.op = "setattr" /\ call.self = <<>> /\ call.identifier = A
    /\ ~ret.raised
    /\ DOMAIN tree[<<A>>].groups["plot"].kwargs = {"x"}
    /\ DOMAIN tree[<<A>>].groups["style"].kwargs = {"z"}
====
